---- MODULE Spec2Model ----
(***************************************************************************)
(* One quiz room of the flip-card application: the room document, its      *)
(* participants / bannedUsers / questions / answers sub-collections and    *)
(* the gameResults collection, the store functions of lib/firestore that   *)
(* read and write them (one step per awaited database request), and the    *)
(* host page that calls them from its subscribed view of the room.         *)
(***************************************************************************)
EXTENDS Integers, FiniteSets, Sequences, TLC

\* ------------------------------------------------------------------ bounds
\* Documents ever created in a run (Firestore auto-ids are never reused): with
\* overlapping calls, and with the calls made one at a time.
MaxDocs == 3
MaxSeqDocs == 4
\* Documents of a run in which one participant answers and the host closes
\* two questions in turn.
MaxCloseDocs == 5
\* Store calls that overlap (over all clients): any two.
Slots == {1, 2}
\* Seconds of the answer page's clock that a run covers.
MaxTime == 7
\* Lines stroked on one background, and the clears and strokes without a line
\* of a run.
MaxLines == 52
MaxRepeats == 1
\* Largest number typed into the "max participants" input of the home page.
MaxInput == 2
\* Signed-in identities (user.uid) and canvas exports (data URLs).
Users == {"u1", "u2"}
Drawings == {"d1", "d2"}
\* Display names of a profile ("" for none).
Names == {"", "name1", "name2"}
\* Pixels of a decoded drawing. Their colours: every combination of channels
\* just below and at the darkness threshold, black and white; their alpha:
\* transparent, half and opaque.
MaxPixels == 2
Boundary == {127, 128}
Colours == [r : Boundary, g : Boundary, b : Boundary]
             \cup {[r |-> 0, g |-> 0, b |-> 0], [r |-> 255, g |-> 255, b |-> 255]}
Alphas == {0, 128, 255}

\* --------------------------------------------------------- program constants
MAX_PARTICIPANTS == 15
DefaultMaxParticipants == 10
MaxParticipantsLimit == 100
MinParticipantsLimit == 1

NoDoc == 0
\* if (r < 128 && g < 128 && b < 128)
Threshold == 128
\* <canvas width={320} height={240}>
CanvasWidth == 320
CanvasHeight == 240
\* if (now - lastSubmitTime < 2000) return;   setInterval(saveAnswer, 3000)
ThrottleMs == 2000
SaveIntervalMs == 3000
\* if (historyRef.current.length > 50)
HistoryLimit == 50

VARIABLES
  room,              \* rooms/{roomId}: status, currentQuestionId, maxParticipants
  participants,      \* rooms/{roomId}/participants: set of [id, odId]
  bannedUsers,       \* rooms/{roomId}/bannedUsers: set of [id, odId]
  questions,         \* rooms/{roomId}/questions: set of ids
  answers,           \* rooms/{roomId}/answers: set of answer documents
  gameResults,       \* gameResults: set of [id, questionId, answers]
  nextId,            \* next fresh document id
  calls,             \* the store calls in flight, one record per slot
  hostRoom,          \* HostPage state `room` (last room snapshot delivered)
  hostParticipants,  \* HostPage state `participants`
  hostBanned,        \* HostPage state `bannedUsers`
  hostAnswers,       \* HostPage state `answers`
  hostCurrentQuestion, \* HostPage state `currentQuestion` (id or NoDoc)
  hostLookups,       \* getQuestion(...).then(setCurrentQuestion) not yet resolved
  lastReturn,        \* what the call that finished last returned or threw
  docLimit,          \* the run's bound on nextId (MaxDocs or MaxSeqDocs)
  bcRoom,            \* BroadcastPage state `room`
  bcAnswers,         \* BroadcastPage state `answers`
  bcLoading,         \* images of the draw effect whose onload has not fired
  bcCanvases,        \* the mounted canvas elements and what is drawn on them
  img,               \* the decoded image handed to img.onload
  isCorrect,         \* answer.isCorrect in the closure of img.onload
  canvas,            \* the canvas element img.onload draws on
  now,               \* the clock of the answer page's browser (Date.now(), timers), ms
  apRoom,            \* AnswerPage state `room`
  apQuestion,        \* AnswerPage state `question` (id or NoDoc)
  apLookups,         \* `await getQuestion(...)` of room callbacks not yet resolved
  canvasData,        \* AnswerPage state `canvasData` ("" before the first stroke)
  lastSubmitTime,    \* AnswerPage state `lastSubmitTime`
  autoSaveInterval,  \* the interval of the auto-save effect and its closure
  autoSaving,        \* saveAnswer calls waiting at `await submitAnswer(...)`
  autoSaveStarted,   \* when the latest auto-save call to submitAnswer began
  raster,            \* DrawingCanvas: what is on the canvas element
  isDrawing,         \* DrawingCanvas state `isDrawing`
  moved,             \* whether the stroke in progress has drawn a line
  history,           \* DrawingCanvas historyRef.current
  historyIndex,      \* DrawingCanvas historyIndexRef.current
  onChange,          \* the handler that ran last and what it passed to onChange
  repeats,           \* clears and strokes without a line so far
  dropped,           \* whether a snapshot was ever shifted out of the history
  mounted,           \* the pages that are mounted
  listeners,         \* the onSnapshot listeners that are registered
  userProfile        \* AuthContext userProfile.displayName of each identity

store == <<room, participants, bannedUsers, questions, answers, gameResults, nextId,
          docLimit>>
hostView == <<hostRoom, hostParticipants, hostBanned, hostAnswers,
              hostCurrentQuestion, hostLookups>>
bcView == <<bcRoom, bcAnswers, bcLoading, bcCanvases>>
onload == <<img, isCorrect, canvas>>
broadcastPage == <<bcRoom, bcAnswers, bcLoading, bcCanvases, img, isCorrect, canvas>>
autoSave == <<canvasData, lastSubmitTime, autoSaveInterval, autoSaving, autoSaveStarted>>
apView == <<apRoom, apQuestion, apLookups>>
drawingCanvas == <<raster, isDrawing, moved, history, historyIndex, onChange, repeats,
                   dropped>>
answerPage == <<userProfile, now, apRoom, apQuestion, apLookups, canvasData, lastSubmitTime,
                autoSaveInterval, autoSaving, autoSaveStarted>>
subscriptions == <<mounted, listeners>>
clientPages == <<userProfile, now, apRoom, apQuestion, apLookups, canvasData, lastSubmitTime,
                 autoSaveInterval, autoSaving, autoSaveStarted, raster, isDrawing, moved,
                 history, historyIndex, onChange, repeats, dropped, mounted, listeners>>
vars == <<room, participants, bannedUsers, questions, answers, gameResults, nextId,
          calls, hostRoom, hostParticipants, hostBanned, hostAnswers,
          hostCurrentQuestion, hostLookups, lastReturn, docLimit,
          bcRoom, bcAnswers, bcLoading, bcCanvases, img, isCorrect, canvas,
          now, apRoom, apQuestion, apLookups, canvasData, lastSubmitTime, autoSaveInterval, autoSaving,
          autoSaveStarted, raster, isDrawing, moved, history, historyIndex, onChange,
          repeats, dropped, mounted, listeners, userProfile>>

\* ------------------------------------------------------------------ helpers
Min(a, b) == IF a < b THEN a ELSE b
Max(a, b) == IF a > b THEN a ELSE b

\* onChange of the number input: Math.min(100, Math.max(1, parseInt(v) || 1))
setMaxParticipants(v) ==
  Min(MaxParticipantsLimit, Max(MinParticipantsLimit, IF v = 0 THEN 1 ELSE v))

\* A call slot: the function running in it, the await it stands at, its
\* arguments and locals.
Idle == [op |-> "none", pc |-> "idle", odId |-> "none", ref |-> NoDoc, qid |-> NoDoc,
         data |-> "none", n |-> 0, snap |-> {}, displayName |-> "none"]
NoReturn == [op |-> "none", odId |-> "none", ref |-> NoDoc, result |-> "none"]

\* A call begins in the first free slot (the slots are interchangeable).
Free(c) == calls[c] = Idle /\ \A d \in Slots : d < c => calls[d] # Idle
At(c, op, pc) == calls[c].op = op /\ calls[c].pc = pc
Running(op) == \E c \in Slots : calls[c].op = op
\* The call of slot c returns (result "ok", "existing", ...) or throws.
Return(op, u, ref, res) == [op |-> op, odId |-> u, ref |-> ref, result |-> res]

Ids(docs) == {d.id : d \in docs}
ParticipantsOf(u) == {p \in participants : p.odId = u}
BansOf(u) == {b \in bannedUsers : b.odId = u}
AnswersOf(q, u) == {a \in answers : a.questionId = q /\ a.odId = u}

\* isUserBanned: the bannedUsers query where odId == odId is not empty.
isUserBanned(u) == BansOf(u) # {}

\* ------------------------------------------------------------ subscriptions
\* The pages that subscribe to the room, and a listener onSnapshot registered:
\* the page whose effect holds its unsubscribe function, the collection (or the
\* room document) it listens to and, for answers, the question of its query.
Pages == {"host", "broadcast", "answer"}
Listener(page, collection, key) == [page |-> page, collection |-> collection, key |-> key]
Listening(page, collection, key) == Listener(page, collection, key) \in listeners

\* The listeners of a page's first effect: subscribeToRoom, and on the host
\* page subscribeToParticipants and subscribeToBannedUsers.
RoomEffect(page) ==
  {Listener(page, "room", NoDoc)} \cup
  (IF page = "host"
   THEN {Listener(page, "participants", NoDoc), Listener(page, "bannedUsers", NoDoc)}
   ELSE {})

\* Mutant: the effect on room.currentQuestionId returns no cleanup.
AnswersEffect_NoCleanup(page, old, new) ==
  IF new = old THEN listeners
  ELSE listeners \cup (IF new = NoDoc THEN {} ELSE {Listener(page, "answers", new)})

\* The effect on [roomId, room?.currentQuestionId] of the host and broadcast
\* pages when the rendered currentQuestionId goes from old to new: the cleanup
\* of the run before calls its unsub, then subscribeToAnswers unless new is null.
AnswersEffect(page, old, new) ==
  IF new = old THEN listeners
  ELSE (listeners \ {Listener(page, "answers", old)})
         \cup (IF new = NoDoc THEN {} ELSE {Listener(page, "answers", new)})

\* useState<Room | null>(null) of a page that has not been handed the room.
NoRoom == [status |-> "none", currentQuestionId |-> NoDoc, maxParticipants |-> 0]

\* ------------------------------------------------------------------- Init
\* autoSaveIntervalRef.current before the effect first sets an interval, and the
\* time of an auto-save before any was made.
\* DrawingCanvas after its initialisation effect: the canvas filled with the
\* background colour, that raster as the only snapshot, nothing reported. A
\* raster is the number of lines stroked on the background since it was filled.
Background == 0
NoChange == [handler |-> "none", dataUrl |-> <<>>]
NoInterval == [due |-> 0, qid |-> NoDoc, data |-> "", lastSubmitTime |-> 0,
               displayName |-> ""]
Never == -1

\* The state after createRoom(hostId, maxParticipants) from the home page and
\* the host page's first load.
createRoom(maxParticipants) ==
  [status |-> "waiting", currentQuestionId |-> NoDoc, maxParticipants |-> maxParticipants]

InitRoom(maxParticipants, limit) ==
  /\ room = createRoom(maxParticipants)
  /\ docLimit = limit
  /\ participants = {}
  /\ bannedUsers = {}
  /\ questions = {}
  /\ answers = {}
  /\ gameResults = {}
  /\ nextId = 1
  /\ calls = [c \in Slots |-> Idle]
  /\ hostRoom = room
  /\ hostParticipants = {}
  /\ hostBanned = {}
  /\ hostAnswers = {}
  /\ hostCurrentQuestion = NoDoc
  /\ hostLookups = {}
  /\ lastReturn = NoReturn
  /\ bcRoom = room
  /\ bcAnswers = {}
  /\ bcLoading = {}
  /\ bcCanvases = {}
  /\ now = 0
  /\ apRoom = room
  /\ apQuestion = NoDoc
  /\ apLookups = {}
  /\ canvasData = ""
  /\ lastSubmitTime = 0
  /\ autoSaveInterval = NoInterval
  /\ autoSaving = {}
  /\ autoSaveStarted = Never
  /\ raster = Background
  /\ isDrawing = FALSE
  /\ moved = FALSE
  /\ history = <<Background>>
  /\ historyIndex = 0
  /\ onChange = NoChange
  /\ repeats = 0
  /\ dropped = FALSE
  /\ mounted = Pages
  /\ userProfile = [u \in Users |-> "name1"]
  /\ listeners = UNION {RoomEffect(page) : page \in Pages}

\* The host typed the capacity, or left the input at its default.
\* No image has loaded on the broadcast page.
NoImage == [width |-> 0, height |-> 0, data |-> <<>>]
BlankCanvas == [width |-> CanvasWidth, height |-> CanvasHeight, calls |-> <<>>]
NothingLoaded == img = NoImage /\ isCorrect = FALSE /\ canvas = BlankCanvas

Init == \E v \in 0..MaxInput : InitRoom(setMaxParticipants(v), MaxDocs) /\ NothingLoaded
InitSeq == \E v \in 0..MaxInput : InitRoom(setMaxParticipants(v), MaxSeqDocs) /\ NothingLoaded
InitDefault == InitRoom(DefaultMaxParticipants, MaxDocs) /\ NothingLoaded

\* A revealed answer's drawing has been decoded: any image of up to MaxPixels
\* pixels, for an answer marked correct or not.
Pixels == {[r |-> c.r, g |-> c.g, b |-> c.b, a |-> a] : c \in Colours, a \in Alphas}
Sizes == {wh \in (1..MaxPixels) \X (1..MaxPixels) : wh[1] * wh[2] <= MaxPixels}
Images(width, height) ==
  {[width |-> width, height |-> height, data |-> d] : d \in [1..(width * height) -> Pixels]}
InitOnload ==
  /\ InitRoom(DefaultMaxParticipants, MaxDocs)
  /\ \E wh \in Sizes : img \in Images(wh[1], wh[2])
  /\ isCorrect \in BOOLEAN
  /\ canvas = BlankCanvas


\* ------------------------------------------------------- requestJoinRoom
\* Called by HomeContent.handleJoinRoom and by the answer page's load effect.
RequestJoinRoom(c, u) ==
  /\ Free(c)
  /\ calls' = [calls EXCEPT ![c] =
       [Idle EXCEPT !.op = "requestJoinRoom", !.pc = "isUserBanned", !.odId = u]]
  /\ UNCHANGED <<store, hostView, broadcastPage, clientPages, lastReturn>>

\* Mutant: the membership lookup is made before the ban check.
JoinIsUserBanned_AfterExisting(c) ==
  /\ At(c, "requestJoinRoom", "isUserBanned")
  /\ IF ParticipantsOf(calls[c].odId) # {}
     THEN /\ \E p \in ParticipantsOf(calls[c].odId) :
               lastReturn' = Return("requestJoinRoom", calls[c].odId, p.id, "existing")
          /\ calls' = [calls EXCEPT ![c] = Idle]
     ELSE IF isUserBanned(calls[c].odId)
          THEN /\ lastReturn' = Return("requestJoinRoom", calls[c].odId, NoDoc, "banned")
               /\ calls' = [calls EXCEPT ![c] = Idle]
          ELSE /\ calls' = [calls EXCEPT ![c].pc = "existing"]
               /\ UNCHANGED lastReturn
  /\ UNCHANGED <<store, hostView, broadcastPage, clientPages>>

\* const banned = await isUserBanned(roomId, odId); if (banned) throw
JoinIsUserBanned(c) ==
  /\ At(c, "requestJoinRoom", "isUserBanned")
  /\ IF isUserBanned(calls[c].odId)
     THEN /\ lastReturn' = Return("requestJoinRoom", calls[c].odId, NoDoc, "banned")
          /\ calls' = [calls EXCEPT ![c] = Idle]
     ELSE /\ calls' = [calls EXCEPT ![c].pc = "existing"]
          /\ UNCHANGED lastReturn
  /\ UNCHANGED <<store, hostView, broadcastPage, clientPages>>

\* Mutant: the membership lookup is skipped.
JoinExisting_Skipped(c) ==
  /\ At(c, "requestJoinRoom", "existing")
  /\ calls' = [calls EXCEPT ![c].pc = "count"]
  /\ UNCHANGED <<store, hostView, broadcastPage, clientPages, lastReturn>>

\* existingSnapshot = await getDocs(where odId == odId);
\* if (!existingSnapshot.empty) return existingSnapshot.docs[0]
JoinExisting(c) ==
  /\ At(c, "requestJoinRoom", "existing")
  /\ IF ParticipantsOf(calls[c].odId) # {}
     THEN /\ \E p \in ParticipantsOf(calls[c].odId) :
               lastReturn' = Return("requestJoinRoom", calls[c].odId, p.id, "existing")
          /\ calls' = [calls EXCEPT ![c] = Idle]
     ELSE /\ calls' = [calls EXCEPT ![c].pc = "count"]
          /\ UNCHANGED lastReturn
  /\ UNCHANGED <<store, hostView, broadcastPage, clientPages>>

\* activeCount = (await getDocs(participants)).docs.length
JoinCount(c) ==
  /\ At(c, "requestJoinRoom", "count")
  /\ calls' = [calls EXCEPT ![c].pc = "room", ![c].n = Cardinality(participants)]
  /\ UNCHANGED <<store, hostView, broadcastPage, clientPages, lastReturn>>

\* Mutant: the capacity test is activeCount > maxParticipants.
JoinRoom_OffByOne(c) ==
  /\ At(c, "requestJoinRoom", "room")
  /\ LET maxParticipants == IF room.maxParticipants = 0 THEN MAX_PARTICIPANTS
                            ELSE room.maxParticipants
     IN IF calls[c].n > maxParticipants
        THEN /\ lastReturn' = Return("requestJoinRoom", calls[c].odId, NoDoc, "full")
             /\ calls' = [calls EXCEPT ![c] = Idle]
        ELSE /\ calls' = [calls EXCEPT ![c].pc = "addDoc"]
             /\ UNCHANGED lastReturn
  /\ UNCHANGED <<store, hostView, broadcastPage, clientPages>>

\* maxParticipants = roomData?.maxParticipants || MAX_PARTICIPANTS;
\* if (activeCount >= maxParticipants) throw
JoinRoom(c) ==
  /\ At(c, "requestJoinRoom", "room")
  /\ LET maxParticipants == IF room.maxParticipants = 0 THEN MAX_PARTICIPANTS
                            ELSE room.maxParticipants
     IN IF calls[c].n >= maxParticipants
        THEN /\ lastReturn' = Return("requestJoinRoom", calls[c].odId, NoDoc, "full")
             /\ calls' = [calls EXCEPT ![c] = Idle]
        ELSE /\ calls' = [calls EXCEPT ![c].pc = "addDoc"]
             /\ UNCHANGED lastReturn
  /\ UNCHANGED <<store, hostView, broadcastPage, clientPages>>

\* Mutant: the write is refused when the room has filled up meanwhile.
JoinAddDoc_Rechecks(c) ==
  /\ At(c, "requestJoinRoom", "addDoc")
  /\ nextId <= docLimit
  /\ IF Cardinality(participants) >= room.maxParticipants
     THEN /\ lastReturn' = Return("requestJoinRoom", calls[c].odId, NoDoc, "full")
          /\ UNCHANGED <<participants, nextId>>
     ELSE /\ participants' = participants \cup {[id |-> nextId, odId |-> calls[c].odId]}
          /\ nextId' = nextId + 1
          /\ lastReturn' = Return("requestJoinRoom", calls[c].odId, nextId, "created")
  /\ calls' = [calls EXCEPT ![c] = Idle]
  /\ UNCHANGED <<room, bannedUsers, questions, answers, gameResults, docLimit, hostView,
                 broadcastPage, clientPages>>

\* participantRef = await addDoc(participants, {...}); the getDoc that follows
\* only reads the new document back for the return value.
JoinAddDoc(c) ==
  /\ At(c, "requestJoinRoom", "addDoc")
  /\ nextId <= docLimit
  /\ participants' = participants \cup {[id |-> nextId, odId |-> calls[c].odId]}
  /\ nextId' = nextId + 1
  /\ lastReturn' = Return("requestJoinRoom", calls[c].odId, nextId, "created")
  /\ calls' = [calls EXCEPT ![c] = Idle]
  /\ UNCHANGED <<room, bannedUsers, questions, answers, gameResults, docLimit, hostView, broadcastPage, clientPages>>

\* ------------------------------------------------------- kickParticipant
\* Mutant: the kick removes the participant without writing the ban record.
KickAddDoc_NoBan(c, p) ==
  /\ Free(c)
  /\ p \in hostParticipants
  /\ calls' = [calls EXCEPT ![c] =
       [Idle EXCEPT !.op = "kickParticipant", !.pc = "deleteDoc",
                    !.ref = p.id, !.odId = p.odId]]
  /\ UNCHANGED <<store, hostView, broadcastPage, clientPages, lastReturn>>

\* Mutant: the kick begins with the delete and writes no ban record before it.
KickAddDoc_DeletesFirst(c, p) ==
  /\ Free(c)
  /\ p \in hostParticipants
  /\ participants' = {x \in participants : x.id # p.id}
  /\ calls' = [calls EXCEPT ![c] =
       [Idle EXCEPT !.op = "kickParticipant", !.pc = "deleteDoc",
                    !.ref = p.id, !.odId = p.odId]]
  /\ UNCHANGED <<room, bannedUsers, questions, answers, gameResults, nextId, docLimit,
                 hostView, broadcastPage, clientPages, lastReturn>>

\* HostPage.handleKick(p) for a participant p of the host's list:
\* await addDoc(bannedUsers, {odId, ...})
KickAddDoc(c, p) ==
  /\ Free(c)
  /\ p \in hostParticipants
  /\ nextId <= docLimit
  /\ bannedUsers' = bannedUsers \cup {[id |-> nextId, odId |-> p.odId]}
  /\ nextId' = nextId + 1
  /\ calls' = [calls EXCEPT ![c] =
       [Idle EXCEPT !.op = "kickParticipant", !.pc = "deleteDoc",
                    !.ref = p.id, !.odId = p.odId]]
  /\ UNCHANGED <<room, participants, questions, answers, gameResults, docLimit, hostView, broadcastPage, clientPages, lastReturn>>

\* await deleteDoc(participants/participantId)
KickDeleteDoc(c) ==
  /\ At(c, "kickParticipant", "deleteDoc")
  /\ participants' = {p \in participants : p.id # calls[c].ref}
  /\ lastReturn' = Return("kickParticipant", calls[c].odId, calls[c].ref, "ok")
  /\ calls' = [calls EXCEPT ![c] = Idle]
  /\ UNCHANGED <<room, bannedUsers, questions, answers, gameResults, nextId, docLimit, hostView, broadcastPage, clientPages>>

\* The deleteDoc rejects: kickParticipant throws after its ban record was
\* written, handleKick catches it and sets the page's error message.
KickDeleteDocFails(c) ==
  /\ At(c, "kickParticipant", "deleteDoc")
  /\ lastReturn' = Return("kickParticipant", calls[c].odId, calls[c].ref, "failed")
  /\ calls' = [calls EXCEPT ![c] = Idle]
  /\ UNCHANGED <<store, hostView, broadcastPage, clientPages>>

\* ------------------------------------------------------------- unbanUser
\* HostPage.handleUnban(b.odId) for an entry b of the host's banned list:
\* snapshot = await getDocs(where odId == odId)
UnbanGetDocs(c, b) ==
  /\ Free(c)
  /\ b \in hostBanned
  /\ IF BansOf(b.odId) = {}
     THEN /\ lastReturn' = Return("unbanUser", b.odId, NoDoc, "ok")
          /\ UNCHANGED calls
     ELSE /\ calls' = [calls EXCEPT ![c] =
               [Idle EXCEPT !.op = "unbanUser", !.pc = "deleteDoc", !.odId = b.odId,
                            !.snap = Ids(BansOf(b.odId))]]
          /\ UNCHANGED lastReturn
  /\ UNCHANGED <<store, hostView, broadcastPage, clientPages>>

\* Mutant: only the first matching ban record is deleted.
UnbanDeleteDoc_FirstOnly(c) ==
  /\ At(c, "unbanUser", "deleteDoc")
  /\ \E d \in calls[c].snap :
       /\ bannedUsers' = {b \in bannedUsers : b.id # d}
       /\ calls' = [calls EXCEPT ![c] = Idle]
       /\ lastReturn' = Return("unbanUser", calls[c].odId, NoDoc, "ok")
  /\ UNCHANGED <<room, participants, questions, answers, gameResults, nextId, docLimit,
                 hostView, broadcastPage, clientPages>>

\* Mutant: the unban also removes what the identity left in the room.
UnbanDeleteDoc_Purge(c) ==
  /\ At(c, "unbanUser", "deleteDoc")
  /\ \E d \in calls[c].snap :
       /\ bannedUsers' = {b \in bannedUsers : b.id # d}
       /\ IF calls[c].snap = {d}
          THEN /\ calls' = [calls EXCEPT ![c] = Idle]
               /\ lastReturn' = Return("unbanUser", calls[c].odId, NoDoc, "ok")
          ELSE /\ calls' = [calls EXCEPT ![c].snap = calls[c].snap \ {d}]
               /\ UNCHANGED lastReturn
  /\ answers' = {a \in answers : a.odId # calls[c].odId}
  /\ UNCHANGED <<room, participants, questions, gameResults, nextId, docLimit, hostView, broadcastPage, clientPages>>

\* for (const docSnap of snapshot.docs) await deleteDoc(bannedUsers/docSnap.id)
UnbanDeleteDoc(c) ==
  /\ At(c, "unbanUser", "deleteDoc")
  /\ \E d \in calls[c].snap :
       /\ bannedUsers' = {b \in bannedUsers : b.id # d}
       /\ IF calls[c].snap = {d}
          THEN /\ calls' = [calls EXCEPT ![c] = Idle]
               /\ lastReturn' = Return("unbanUser", calls[c].odId, NoDoc, "ok")
          ELSE /\ calls' = [calls EXCEPT ![c].snap = calls[c].snap \ {d}]
               /\ UNCHANGED lastReturn
  /\ UNCHANGED <<room, participants, questions, answers, gameResults, nextId, docLimit, hostView, broadcastPage, clientPages>>

\* ------------------------------------------------------ host subscriptions
\* subscribeToParticipants(roomId, setParticipants)
HostParticipantsSnapshot ==
  /\ Listening("host", "participants", NoDoc)
  /\ hostParticipants # participants
  /\ hostParticipants' = participants
  /\ UNCHANGED <<store, calls, lastReturn, broadcastPage, clientPages, hostRoom, hostBanned, hostAnswers,
                 hostCurrentQuestion, hostLookups>>

\* subscribeToBannedUsers(roomId, setBannedUsers)
HostBannedSnapshot ==
  /\ Listening("host", "bannedUsers", NoDoc)
  /\ hostBanned # bannedUsers
  /\ hostBanned' = bannedUsers
  /\ UNCHANGED <<store, calls, lastReturn, broadcastPage, clientPages, hostRoom, hostParticipants, hostAnswers,
                 hostCurrentQuestion, hostLookups>>

\* subscribeToRoom(roomId, setRoom), and the effect on room.currentQuestionId:
\* setCurrentQuestion(null) when it is null, else getQuestion(...).then(
\* setCurrentQuestion) and a new answers subscription (answers is not cleared).
HostRoomSnapshot ==
  /\ Listening("host", "room", NoDoc)
  /\ hostRoom # room
  /\ hostRoom' = room
  /\ listeners' = AnswersEffect("host", hostRoom.currentQuestionId, room.currentQuestionId)
  /\ IF room.currentQuestionId = hostRoom.currentQuestionId
     THEN UNCHANGED <<hostCurrentQuestion, hostLookups>>
     ELSE IF room.currentQuestionId = NoDoc
          THEN hostCurrentQuestion' = NoDoc /\ UNCHANGED hostLookups
          ELSE /\ hostLookups' = hostLookups \cup {room.currentQuestionId}
               /\ UNCHANGED hostCurrentQuestion
  /\ UNCHANGED <<store, calls, lastReturn, broadcastPage, answerPage, drawingCanvas, mounted,
                 hostParticipants, hostBanned, hostAnswers>>

\* getQuestion(roomId, id).then(setCurrentQuestion)
HostGetQuestion(q) ==
  /\ q \in hostLookups
  /\ hostLookups' = hostLookups \ {q}
  /\ hostCurrentQuestion' = IF q \in questions THEN q ELSE NoDoc
  /\ UNCHANGED <<store, calls, lastReturn, broadcastPage, clientPages, hostRoom, hostParticipants, hostBanned,
                 hostAnswers>>

\* subscribeToAnswers(roomId, room.currentQuestionId, setAnswers)
AnswersForQuestion(q) == {a \in answers : a.questionId = q}

HostAnswersSnapshot ==
  /\ hostRoom.currentQuestionId # NoDoc
  /\ Listening("host", "answers", hostRoom.currentQuestionId)
  /\ hostAnswers # AnswersForQuestion(hostRoom.currentQuestionId)
  /\ hostAnswers' = AnswersForQuestion(hostRoom.currentQuestionId)
  /\ UNCHANGED <<store, calls, lastReturn, broadcastPage, clientPages, hostRoom, hostParticipants, hostBanned,
                 hostCurrentQuestion, hostLookups>>

\* ----------------------------------------------------------- submitAnswer
\* The questions the room has pointed to: what an answer page's room snapshot
\* (status questioning, currentQuestionId) can name when it saves.
WasCurrent ==
  {q \in questions : ~\E c \in Slots : calls[c].op = "createQuestion" /\ calls[c].ref = q}

\* userProfile.displayName || '匿名' ("anonymous"), the displayName argument.
DisplayName(u) == IF userProfile[u] = "" THEN "anonymous" ELSE userProfile[u]

\* Mutant: the lookup for an existing answer always comes back empty.
SubmitGetDocs_AlwaysNew(c, u, q, d) ==
  /\ Free(c)
  /\ q \in WasCurrent
  /\ calls' = [calls EXCEPT ![c] =
       [Idle EXCEPT !.op = "submitAnswer", !.pc = "addDoc", !.odId = u,
                    !.qid = q, !.data = d, !.displayName = DisplayName(u)]]
  /\ UNCHANGED <<store, hostView, broadcastPage, clientPages, lastReturn>>

\* AnswerPage.handleSubmit / the auto-save tick:
\* existingAnswers = await getDocs(where questionId == q, odId == u)
SubmitGetDocs(c, u, q, d) ==
  /\ Free(c)
  /\ q \in WasCurrent
  /\ IF AnswersOf(q, u) # {}
     THEN \E e \in AnswersOf(q, u) :
            calls' = [calls EXCEPT ![c] =
              [Idle EXCEPT !.op = "submitAnswer", !.pc = "updateDoc", !.odId = u,
                           !.qid = q, !.data = d, !.ref = e.id,
                           !.displayName = DisplayName(u)]]
     ELSE calls' = [calls EXCEPT ![c] =
            [Idle EXCEPT !.op = "submitAnswer", !.pc = "addDoc", !.odId = u,
                         !.qid = q, !.data = d, !.displayName = DisplayName(u)]]
  /\ UNCHANGED <<store, hostView, broadcastPage, clientPages, lastReturn>>

\* Mutant: the update rewrites the whole record as a new answer would be.
SubmitUpdateDoc_Overwrites(c) ==
  /\ At(c, "submitAnswer", "updateDoc")
  /\ answers' = {IF a.id = calls[c].ref
                 THEN [a EXCEPT !.canvasData = calls[c].data,
                                !.displayName = calls[c].displayName,
                                !.isCorrect = FALSE, !.isRevealed = FALSE]
                 ELSE a : a \in answers}
  /\ lastReturn' = Return("submitAnswer", calls[c].odId, calls[c].ref, "updated")
  /\ calls' = [calls EXCEPT ![c] = Idle]
  /\ UNCHANGED <<room, participants, bannedUsers, questions, gameResults, nextId,
                 docLimit, hostView, broadcastPage, clientPages>>

\* await updateDoc(answers/existingDoc.id, {canvasData, updatedAt}); the
\* server timestamp updatedAt is not modelled.
SubmitUpdateDoc(c) ==
  /\ At(c, "submitAnswer", "updateDoc")
  /\ answers' = {IF a.id = calls[c].ref THEN [a EXCEPT !.canvasData = calls[c].data]
                 ELSE a : a \in answers}
  /\ lastReturn' = Return("submitAnswer", calls[c].odId, calls[c].ref, "updated")
  /\ calls' = [calls EXCEPT ![c] = Idle]
  /\ UNCHANGED <<room, participants, bannedUsers, questions, gameResults, nextId,
                 docLimit, hostView, broadcastPage, clientPages>>

\* answerRef = await addDoc(answers, {..., isCorrect: false, isRevealed: false})
SubmitAddDoc(c) ==
  /\ At(c, "submitAnswer", "addDoc")
  /\ nextId <= docLimit
  /\ answers' = answers \cup
       {[id |-> nextId, questionId |-> calls[c].qid, odId |-> calls[c].odId,
         displayName |-> calls[c].displayName, canvasData |-> calls[c].data,
         isCorrect |-> FALSE, isRevealed |-> FALSE]}
  /\ nextId' = nextId + 1
  /\ lastReturn' = Return("submitAnswer", calls[c].odId, nextId, "created")
  /\ calls' = [calls EXCEPT ![c] = Idle]
  /\ UNCHANGED <<room, participants, bannedUsers, questions, gameResults, docLimit,
                 hostView, broadcastPage, clientPages>>

\* AuthContext.updateProfile({displayName, ...}) from the settings page:
\* the profile document is written and setUserProfile merges the change.
UpdateProfile(u, name) ==
  /\ name # userProfile[u]
  /\ userProfile' = [userProfile EXCEPT ![u] = name]
  /\ UNCHANGED <<store, calls, lastReturn, hostView, broadcastPage, subscriptions,
                 drawingCanvas, now, apView, autoSave>>

\* --------------------------------------------------------- createQuestion
\* HostPage.handleCreateQuestion: the form is shown when room.status is waiting
\* or there is no current question, its button is disabled while
\* isCreatingQuestion. questionRef = await addDoc(questions, {...})
CreateQuestionAddDoc(c) ==
  /\ Free(c)
  /\ hostRoom.status = "waiting" \/ hostRoom.currentQuestionId = NoDoc
  /\ ~Running("createQuestion")
  /\ nextId <= docLimit
  /\ questions' = questions \cup {nextId}
  /\ nextId' = nextId + 1
  /\ calls' = [calls EXCEPT ![c] =
       [Idle EXCEPT !.op = "createQuestion", !.pc = "updateDoc", !.ref = nextId]]
  /\ UNCHANGED <<room, participants, bannedUsers, answers, gameResults, docLimit,
                 hostView, broadcastPage, clientPages, lastReturn>>

\* Mutant: the write sets the pointer and leaves the status for a later write.
CreateQuestionUpdateDoc_OnlyPointer(c) ==
  /\ At(c, "createQuestion", "updateDoc")
  /\ room' = [room EXCEPT !.currentQuestionId = calls[c].ref]
  /\ lastReturn' = Return("createQuestion", "none", calls[c].ref, "ok")
  /\ calls' = [calls EXCEPT ![c] = Idle]
  /\ UNCHANGED <<participants, bannedUsers, questions, answers, gameResults, nextId,
                 docLimit, hostView, broadcastPage, clientPages>>

\* await updateDoc(rooms/roomId, {currentQuestionId: questionRef.id,
\* status: 'questioning'})
CreateQuestionUpdateDoc(c) ==
  /\ At(c, "createQuestion", "updateDoc")
  /\ room' = [room EXCEPT !.currentQuestionId = calls[c].ref, !.status = "questioning"]
  /\ lastReturn' = Return("createQuestion", "none", calls[c].ref, "ok")
  /\ calls' = [calls EXCEPT ![c] = Idle]
  /\ UNCHANGED <<participants, bannedUsers, questions, answers, gameResults, nextId,
                 docLimit, hostView, broadcastPage, clientPages>>

\* ------------------------------------------------------------- handleOpen
\* The close button is shown when room.currentQuestionId is set and room.status
\* is questioning, disabled while isSavingHistory; handleOpen returns at once
\* without currentQuestion.
CanOpen ==
  /\ hostRoom.currentQuestionId # NoDoc
  /\ hostRoom.status = "questioning"
  /\ hostCurrentQuestion # NoDoc
  /\ ~Running("handleOpen")

\* await saveGameResult(roomId, roomCode, uid, currentQuestion, answers)
SaveGameResult(c) ==
  /\ Free(c)
  /\ CanOpen
  /\ nextId <= docLimit
  /\ gameResults' = gameResults \cup
       {[id |-> nextId, questionId |-> hostCurrentQuestion,
         answers |-> {[odId |-> a.odId, imageURL |-> a.canvasData,
                       isCorrect |-> a.isCorrect] : a \in hostAnswers}]}
  /\ nextId' = nextId + 1
  /\ calls' = [calls EXCEPT ![c] = [Idle EXCEPT !.op = "handleOpen", !.pc = "openAnswers"]]
  /\ UNCHANGED <<room, participants, bannedUsers, questions, answers, docLimit,
                 hostView, broadcastPage, clientPages, lastReturn>>

\* Mutant: the room is opened although the history was not saved.
SaveGameResultFails_OpensAnyway(c) ==
  /\ Free(c)
  /\ CanOpen
  /\ hostAnswers # {}
  /\ room' = [room EXCEPT !.status = "open"]
  /\ lastReturn' = Return("handleOpen", "none", NoDoc, "failed")
  /\ UNCHANGED <<participants, bannedUsers, questions, answers, gameResults, nextId,
                 docLimit, calls, hostView, broadcastPage, clientPages>>

\* The uploadBytes of one of the answers rejects: Promise.all rejects,
\* saveGameResult throws before its addDoc, handleOpen catches and logs.
SaveGameResultFails(c) ==
  /\ Free(c)
  /\ CanOpen
  /\ hostAnswers # {}
  /\ lastReturn' = Return("handleOpen", "none", NoDoc, "failed")
  /\ UNCHANGED <<store, calls, hostView, broadcastPage, clientPages>>

\* await openAnswers(roomId): updateDoc(rooms/roomId, {status: 'open'})
OpenAnswers(c) ==
  /\ At(c, "handleOpen", "openAnswers")
  /\ room' = [room EXCEPT !.status = "open"]
  /\ lastReturn' = Return("handleOpen", "none", NoDoc, "ok")
  /\ calls' = [calls EXCEPT ![c] = Idle]
  /\ UNCHANGED <<participants, bannedUsers, questions, answers, gameResults, nextId,
                 docLimit, hostView, broadcastPage, clientPages>>

\* ------------------------------------------ resetRoomToWaiting and endRoom
\* HostPage.handleResetToWaiting ("next question", shown when room.status is
\* open): updateDoc(rooms/roomId, {status: 'waiting', currentQuestionId: null})
ResetRoomToWaiting(c) ==
  /\ Free(c)
  /\ hostRoom.currentQuestionId # NoDoc
  /\ hostRoom.status = "open"
  /\ room' = [room EXCEPT !.status = "waiting", !.currentQuestionId = NoDoc]
  /\ lastReturn' = Return("resetRoomToWaiting", "none", NoDoc, "ok")
  /\ UNCHANGED <<participants, bannedUsers, questions, answers, gameResults, nextId,
                 docLimit, calls, hostView, broadcastPage, clientPages>>

\* HostPage.handleEndRoom (the end modal of the header):
\* updateDoc(rooms/roomId, {status: 'ended'})
EndRoom(c) ==
  /\ Free(c)
  /\ room' = [room EXCEPT !.status = "ended"]
  /\ lastReturn' = Return("endRoom", "none", NoDoc, "ok")
  /\ UNCHANGED <<participants, bannedUsers, questions, answers, gameResults, nextId,
                 docLimit, calls, hostView, broadcastPage, clientPages>>

\* ------------------------------------------ the host's answer action buttons
\* The answers grid is rendered when room.currentQuestionId is set; it lists
\* the host page's `answers`.
\* Mutant: the correctness toggle also hides the answer again.
ToggleAnswerCorrect_AlsoHides(c, a) ==
  /\ Free(c)
  /\ hostRoom.currentQuestionId # NoDoc
  /\ a \in hostAnswers
  /\ answers' = {IF x.id = a.id
                 THEN [x EXCEPT !.isCorrect = ~a.isCorrect, !.isRevealed = FALSE]
                 ELSE x : x \in answers}
  /\ lastReturn' = Return("toggleAnswerCorrect", a.odId, a.id, "ok")
  /\ UNCHANGED <<room, participants, bannedUsers, questions, gameResults, nextId,
                 docLimit, calls, hostView, broadcastPage, clientPages>>

\* Mutant: the correctness toggle is carried over to the saved history.
ToggleAnswerCorrect_RewritesHistory(c, a) ==
  /\ Free(c)
  /\ hostRoom.currentQuestionId # NoDoc
  /\ a \in hostAnswers
  /\ answers' = {IF x.id = a.id THEN [x EXCEPT !.isCorrect = ~a.isCorrect] ELSE x :
                 x \in answers}
  /\ gameResults' =
       {[g EXCEPT !.answers =
           {IF g.questionId = a.questionId /\ sa.odId = a.odId
            THEN [sa EXCEPT !.isCorrect = ~a.isCorrect] ELSE sa : sa \in g.answers}] :
        g \in gameResults}
  /\ lastReturn' = Return("toggleAnswerCorrect", a.odId, a.id, "ok")
  /\ UNCHANGED <<room, participants, bannedUsers, questions, nextId,
                 docLimit, calls, hostView, broadcastPage, clientPages>>

\* HostPage.handleToggleCorrect(answer.id, answer.isCorrect):
\* updateDoc(answers/answerId, {isCorrect: !currentState})
ToggleAnswerCorrect(c, a) ==
  /\ Free(c)
  /\ hostRoom.currentQuestionId # NoDoc
  /\ a \in hostAnswers
  /\ answers' = {IF x.id = a.id THEN [x EXCEPT !.isCorrect = ~a.isCorrect] ELSE x :
                 x \in answers}
  /\ lastReturn' = Return("toggleAnswerCorrect", a.odId, a.id, "ok")
  /\ UNCHANGED <<room, participants, bannedUsers, questions, gameResults, nextId,
                 docLimit, calls, hostView, broadcastPage, clientPages>>

\* The reveal button is disabled while room.status is questioning.
RevealDisabled == hostRoom.status = "questioning"

\* HostPage.handleToggleReveal(answer.id, answer.isRevealed):
\* updateDoc(answers/answerId, {isRevealed: !currentState})
ToggleAnswerReveal(c, a) ==
  /\ Free(c)
  /\ hostRoom.currentQuestionId # NoDoc
  /\ ~RevealDisabled
  /\ a \in hostAnswers
  /\ answers' = {IF x.id = a.id THEN [x EXCEPT !.isRevealed = ~a.isRevealed] ELSE x :
                 x \in answers}
  /\ lastReturn' = Return("toggleAnswerReveal", a.odId, a.id, "ok")
  /\ UNCHANGED <<room, participants, bannedUsers, questions, gameResults, nextId,
                 docLimit, calls, hostView, broadcastPage, clientPages>>

\* HostPage.handleRevealAll ("reveal all", shown when room.status is open, the
\* confirm dialog accepted): snapshot = await getDocs(where questionId == q)
RevealAllGetDocs(c) ==
  /\ Free(c)
  /\ hostRoom.currentQuestionId # NoDoc
  /\ hostRoom.status = "open"
  /\ IF AnswersForQuestion(hostRoom.currentQuestionId) = {}
     THEN /\ lastReturn' = Return("revealAllAnswers", "none", NoDoc, "ok")
          /\ UNCHANGED calls
     ELSE /\ calls' = [calls EXCEPT ![c] =
               [Idle EXCEPT !.op = "revealAllAnswers", !.pc = "updateDoc",
                            !.qid = hostRoom.currentQuestionId,
                            !.snap = Ids(AnswersForQuestion(hostRoom.currentQuestionId))]]
          /\ UNCHANGED lastReturn
  /\ UNCHANGED <<store, hostView, broadcastPage, clientPages>>

\* await Promise.all(snapshot.docs.map(d => updateDoc(d, {isRevealed: true}))):
\* the writes are applied one by one, in any order.
RevealAllUpdateDoc(c) ==
  /\ At(c, "revealAllAnswers", "updateDoc")
  /\ \E d \in calls[c].snap :
       /\ answers' = {IF x.id = d THEN [x EXCEPT !.isRevealed = TRUE] ELSE x : x \in answers}
       /\ IF calls[c].snap = {d}
          THEN /\ calls' = [calls EXCEPT ![c] = Idle]
               /\ lastReturn' = Return("revealAllAnswers", "none", NoDoc, "ok")
          ELSE /\ calls' = [calls EXCEPT ![c].snap = calls[c].snap \ {d}]
               /\ UNCHANGED lastReturn
  /\ UNCHANGED <<room, participants, bannedUsers, questions, gameResults, nextId,
                 docLimit, hostView, broadcastPage, clientPages>>

\* ------------------------------------------------------------ BroadcastPage
\* Mutant: a card shows its content as soon as the room is open.
showContent_IgnoresReveal(r, a) == r.status = "open"

\* const showContent = room.status === 'open' && answer.isRevealed
showContent(r, a) == r.status = "open" /\ a.isRevealed

\* The cards rendered with a canvas: the answers grid is rendered when
\* room.status is questioning or open and there are answers.
Shown(r, ans) ==
  IF r.status \in {"questioning", "open"} /\ ans # {}
  THEN {a \in ans : showContent(r, a)}
  ELSE {}

\* The render after a state change. A canvas stays mounted (and keeps what is
\* drawn on it) while its card shows content, and is created blank when the
\* card starts to; an image still loading for a canvas that was unmounted draws
\* on the detached element, which nobody sees.
Render(r, ans) ==
  /\ bcCanvases' =
       {x \in bcCanvases : x.id \in Ids(Shown(r, ans))}
         \cup {[id |-> a.id, drawn |-> "blank", isCorrect |-> FALSE] :
               a \in {b \in Shown(r, ans) : b.id \notin Ids(bcCanvases)}}

\* The draw effect on [answers, room.status]: an image load is started for
\* every answer that is revealed in an open room and has a canvas.
DrawEffect(r, ans) ==
  {[id |-> a.id, data |-> a.canvasData, isCorrect |-> a.isCorrect] :
   a \in {b \in ans : r.status = "open" /\ b.isRevealed /\ b.id \in Ids(Shown(r, ans))}}

StillLoading(r, ans) == {l \in bcLoading : l.id \in Ids(Shown(r, ans))}

\* subscribeToRoom(roomId, setRoom), and the effect on room.currentQuestionId:
\* setAnswers([]) when it is null, else a new answers subscription.
BroadcastRoomSnapshot ==
  /\ Listening("broadcast", "room", NoDoc)
  /\ bcRoom # room
  /\ bcRoom' = room
  /\ listeners' = AnswersEffect("broadcast", bcRoom.currentQuestionId, room.currentQuestionId)
  /\ bcAnswers' = IF room.currentQuestionId = NoDoc THEN {} ELSE bcAnswers
  /\ Render(room, bcAnswers')
  /\ bcLoading' = StillLoading(room, bcAnswers') \cup
       (IF room.status # bcRoom.status THEN DrawEffect(room, bcAnswers') ELSE {})
  /\ UNCHANGED <<store, calls, lastReturn, hostView, answerPage, drawingCanvas, mounted,
                 onload>>

\* subscribeToAnswers(roomId, room.currentQuestionId, setAnswers)
BroadcastAnswersSnapshot ==
  /\ bcRoom.currentQuestionId # NoDoc
  /\ Listening("broadcast", "answers", bcRoom.currentQuestionId)
  /\ bcAnswers # AnswersForQuestion(bcRoom.currentQuestionId)
  /\ bcAnswers' = AnswersForQuestion(bcRoom.currentQuestionId)
  /\ Render(bcRoom, bcAnswers')
  /\ bcLoading' = StillLoading(bcRoom, bcAnswers') \cup DrawEffect(bcRoom, bcAnswers')
  /\ UNCHANGED <<store, calls, lastReturn, hostView, clientPages, bcRoom, onload>>

\* img.onload of an image the draw effect started: the background and the
\* recoloured drawing are drawn on the canvas the effect looked up.
BroadcastImgOnload(l) ==
  /\ l \in bcLoading
  /\ bcLoading' = bcLoading \ {l}
  /\ bcCanvases' = {IF x.id = l.id
                    THEN [x EXCEPT !.drawn = l.data, !.isCorrect = l.isCorrect]
                    ELSE x : x \in bcCanvases}
  /\ UNCHANGED <<store, calls, lastReturn, hostView, clientPages, bcRoom, bcAnswers, onload>>

\* --------------------------------------------------- the recolor transform
\* What img.onload draws: img is the decoded drawing (width, height and the
\* RGBA pixels getImageData returns, row by row), canvas the target element with
\* the calls made on its 2d context.
\* Mutant: a pixel is ink when any one channel is dark.
RecolorPixel_AnyChannel(p) ==
  IF p.r < Threshold \/ p.g < Threshold \/ p.b < Threshold
  THEN [p EXCEPT !.r = 255, !.g = 255, !.b = 255]
  ELSE [p EXCEPT !.a = 0]

\* if (r < 128 && g < 128 && b < 128) { data[i..i+2] = 255 } else { data[i+3] = 0 }
RecolorPixel(p) ==
  IF p.r < Threshold /\ p.g < Threshold /\ p.b < Threshold
  THEN [p EXCEPT !.r = 255, !.g = 255, !.b = 255]
  ELSE [p EXCEPT !.a = 0]

\* for (let i = 0; i < data.length; i += 4) over the image data
Recolor(data) == [i \in 1..Len(data) |-> RecolorPixel(data[i])]

\* Mutant: the processed drawing is drawn at its own size.
DrawImage_Unscaled(tempCanvas, width, height) ==
  [op |-> "drawImage", image |-> tempCanvas, x |-> 0, y |-> 0,
   width |-> tempCanvas.width, height |-> tempCanvas.height]

\* ctx.drawImage(tempCanvas, 0, 0, width, height)
DrawImage(tempCanvas, width, height) ==
  [op |-> "drawImage", image |-> tempCanvas, x |-> 0, y |-> 0,
   width |-> width, height |-> height]

\* ctx.fillStyle = answer.isCorrect ? '#dc2626' : '#2563eb';
\* ctx.fillRect(0, 0, width, height)
FillRect(correct, width, height) ==
  [op |-> "fillRect", fillStyle |-> IF correct THEN "#dc2626" ELSE "#2563eb",
   x |-> 0, y |-> 0, width |-> width, height |-> height]

\* The temporary canvas of the image's size after putImageData.
TempCanvas(image) ==
  [width |-> image.width, height |-> image.height, data |-> Recolor(image.data)]

ImgOnload ==
  /\ img # NoImage
  /\ canvas.calls = <<>>
  /\ canvas' = [canvas EXCEPT !.calls =
       <<FillRect(isCorrect, canvas.width, canvas.height),
         DrawImage(TempCanvas(img), canvas.width, canvas.height)>>]
  /\ UNCHANGED <<store, calls, lastReturn, hostView, clientPages, bcView, img, isCorrect>>

\* --------------------------------------------------------------- AnswerPage
\* The page of the signed-in participant.
Me == "u1"
Ms(seconds) == seconds * 1000

\* A saveAnswer whose submitAnswer has returned resumes (a microtask) before the
\* page handles any other event.
Resumable == {s \in autoSaving : calls[s.slot] = Idle}

\* Mutant: the interval fires every second.
NextDue_EverySecond(t) == t + 1000

\* setInterval(saveAnswer, 3000): the next tick is due 3000 ms after the
\* interval was set or after the tick before it ran.
NextDue(t) == t + SaveIntervalMs

\* The auto-save effect for the rendered room r, canvasData d and
\* lastSubmitTime t: the cleanup of the run before clears its interval; without
\* a current question, without a drawing or outside questioning no interval is
\* set, else one whose saveAnswer closes over r, d and t.
AutoSaveEffect(r, d, t) ==
  autoSaveInterval' =
    IF r.currentQuestionId = NoDoc \/ d = "" \/ r.status # "questioning"
    THEN NoInterval
    ELSE [due |-> NextDue(now), qid |-> r.currentQuestionId, data |-> d,
          lastSubmitTime |-> t, displayName |-> DisplayName(Me)]

\* subscribeToRoom(roomId, async roomData => { setRoom(roomData); ... }): with
\* a current question the callback awaits getQuestion, else setQuestion(null).
\* The auto-save effect re-runs when currentQuestionId or status changed.
AnswerRoomSnapshot ==
  /\ Listening("answer", "room", NoDoc)
  /\ Resumable = {}
  /\ apRoom # room
  /\ apRoom' = room
  /\ IF room.currentQuestionId # NoDoc
     THEN apLookups' = apLookups \cup {room.currentQuestionId} /\ UNCHANGED apQuestion
     ELSE apQuestion' = NoDoc /\ UNCHANGED apLookups
  /\ IF room.currentQuestionId # apRoom.currentQuestionId \/ room.status # apRoom.status
     THEN AutoSaveEffect(room, canvasData, lastSubmitTime)
     ELSE UNCHANGED autoSaveInterval
  /\ UNCHANGED <<store, calls, lastReturn, hostView, broadcastPage, subscriptions, userProfile, drawingCanvas, now, canvasData,
                 lastSubmitTime, autoSaving, autoSaveStarted>>

\* const q = await getQuestion(roomId, roomData.currentQuestionId); setQuestion(q)
AnswerGetQuestion(q) ==
  /\ Resumable = {}
  /\ q \in apLookups
  /\ apLookups' = apLookups \ {q}
  /\ apQuestion' = IF q \in questions THEN q ELSE NoDoc
  /\ UNCHANGED <<store, calls, lastReturn, hostView, broadcastPage, subscriptions, userProfile, drawingCanvas, now, apRoom, autoSave>>

\* handleCanvasChange(dataUrl), the onChange of the DrawingCanvas, which is
\* rendered while a question is displayed and room.status is questioning.
HandleCanvasChange(d) ==
  /\ Resumable = {}
  /\ apQuestion # NoDoc
  /\ apRoom.status = "questioning"
  /\ d # canvasData
  /\ canvasData' = d
  /\ AutoSaveEffect(apRoom, d, lastSubmitTime)
  /\ UNCHANGED <<store, calls, lastReturn, hostView, broadcastPage, subscriptions, userProfile, drawingCanvas, now, apView,
                 lastSubmitTime, autoSaving, autoSaveStarted>>

\* A second passes on the page's clock.
TimePasses ==
  /\ Resumable = {}
  /\ now + Ms(1) <= Ms(MaxTime)
  /\ now' = now + Ms(1)
  /\ UNCHANGED <<store, calls, lastReturn, hostView, broadcastPage, subscriptions, userProfile, drawingCanvas, apView,
                 autoSave>>

\* A tick of the interval, on time or late: saveAnswer of the closure. Within
\* the throttle it returns; else it calls submitAnswer, whose first request is
\* the lookup of the existing answer, and waits for it.
SaveAnswer(c) ==
  /\ Resumable = {}
  /\ autoSaveInterval # NoInterval
  /\ now >= autoSaveInterval.due
  /\ autoSaveInterval' = [autoSaveInterval EXCEPT !.due = NextDue(now)]
  /\ IF now - autoSaveInterval.lastSubmitTime < ThrottleMs
     THEN UNCHANGED <<calls, autoSaving, autoSaveStarted>>
     ELSE /\ Free(c)
          /\ LET q == autoSaveInterval.qid
                 existing == AnswersOf(q, Me)
             IN IF existing # {}
                THEN \E e \in existing :
                       calls' = [calls EXCEPT ![c] =
                         [Idle EXCEPT !.op = "submitAnswer", !.pc = "updateDoc",
                                      !.odId = Me, !.qid = q,
                                      !.data = autoSaveInterval.data, !.ref = e.id,
                                      !.displayName = autoSaveInterval.displayName]]
                ELSE calls' = [calls EXCEPT ![c] =
                       [Idle EXCEPT !.op = "submitAnswer", !.pc = "addDoc", !.odId = Me,
                                    !.qid = q, !.data = autoSaveInterval.data,
                                    !.displayName = autoSaveInterval.displayName]]
          /\ autoSaving' = autoSaving \cup {[slot |-> c, now |-> now]}
          /\ autoSaveStarted' = now
  /\ UNCHANGED <<store, lastReturn, hostView, broadcastPage, subscriptions, userProfile, drawingCanvas, now, apView, canvasData,
                 lastSubmitTime>>

\* submitAnswer returned: setLastSubmitTime(now) with the `now` of the tick,
\* and the auto-save effect re-runs when that changes lastSubmitTime.
SetLastSubmitTime(s) ==
  /\ s \in Resumable
  /\ autoSaving' = autoSaving \ {s}
  /\ lastSubmitTime' = s.now
  /\ IF s.now # lastSubmitTime
     THEN AutoSaveEffect(apRoom, canvasData, s.now)
     ELSE UNCHANGED autoSaveInterval
  /\ UNCHANGED <<store, calls, lastReturn, hostView, broadcastPage, subscriptions, userProfile, drawingCanvas, now, apView,
                 canvasData, autoSaveStarted>>

\* A request of the submitAnswer call in slot s.slot rejects: saveAnswer's
\* catch logs it and lastSubmitTime stays.
SaveAnswerFails(s) ==
  /\ s \in autoSaving
  /\ calls[s.slot].op = "submitAnswer"
  /\ calls' = [calls EXCEPT ![s.slot] = Idle]
  /\ autoSaving' = autoSaving \ {s}
  /\ lastReturn' = Return("submitAnswer", Me, NoDoc, "failed")
  /\ UNCHANGED <<store, hostView, broadcastPage, subscriptions, userProfile, drawingCanvas, now, apView, canvasData,
                 lastSubmitTime, autoSaveInterval, autoSaveStarted>>

\* ------------------------------------------------- pages mount and unmount
\* The room state a page renders.
RoomOf(page) ==
  IF page = "host" THEN hostRoom ELSE IF page = "broadcast" THEN bcRoom ELSE apRoom

\* A page is opened: its state is the useState defaults and its first effect
\* subscribes; the effect on currentQuestionId finds no room yet.
Mount(page) ==
  /\ page \notin mounted
  /\ mounted' = mounted \cup {page}
  /\ listeners' = listeners \cup RoomEffect(page)
  /\ IF page = "host"
     THEN /\ hostRoom' = NoRoom
          /\ hostParticipants' = {}
          /\ hostBanned' = {}
          /\ hostAnswers' = {}
          /\ hostCurrentQuestion' = NoDoc
          /\ hostLookups' = {}
     ELSE UNCHANGED hostView
  /\ IF page = "broadcast"
     THEN /\ bcRoom' = NoRoom
          /\ bcAnswers' = {}
          /\ bcLoading' = {}
          /\ bcCanvases' = {}
     ELSE UNCHANGED bcView
  /\ IF page = "answer"
     THEN /\ apRoom' = NoRoom
          /\ apQuestion' = NoDoc
          /\ apLookups' = {}
          /\ canvasData' = ""
          /\ lastSubmitTime' = 0
          /\ autoSaveInterval' = NoInterval
          /\ autoSaving' = {}
     ELSE UNCHANGED <<apView, canvasData, lastSubmitTime, autoSaveInterval, autoSaving>>
  /\ UNCHANGED <<store, calls, lastReturn, onload, userProfile, now, autoSaveStarted,
                 drawingCanvas>>

\* A page is left: the cleanups of its effects run, each calling the unsub
\* its run holds; on the answer page the auto-save cleanup clears the interval.
Unmount(page) ==
  /\ page \in mounted
  /\ mounted' = mounted \ {page}
  /\ listeners' =
       listeners \ (RoomEffect(page) \cup
                    (IF page \in {"host", "broadcast"}
                     THEN {Listener(page, "answers", RoomOf(page).currentQuestionId)}
                     ELSE {}))
  /\ autoSaveInterval' = IF page = "answer" THEN NoInterval ELSE autoSaveInterval
  /\ UNCHANGED <<store, calls, lastReturn, hostView, broadcastPage, drawingCanvas,
                 userProfile, now, apView, canvasData, lastSubmitTime, autoSaving,
                 autoSaveStarted>>

\* ------------------------------------------------------------ DrawingCanvas
\* canvasRef.current.toDataURL(): the lossless encoding of the raster.
toDataURL(r) == <<"data:image/png", r>>

\* Mutant: the redo states above the current index are kept.
saveToHistory_KeepsRedo(h, i, imageData) ==
  LET pushed == Append(h, imageData)
  IN IF Len(pushed) > HistoryLimit
     THEN [history |-> Tail(pushed), historyIndex |-> Len(pushed) - 2, shifted |-> TRUE]
     ELSE [history |-> pushed, historyIndex |-> Len(pushed) - 1, shifted |-> FALSE]

\* saveToHistory(): slice(0, index + 1), push(imageData), index = length - 1,
\* and beyond the limit shift() and index--.
saveToHistory(h, i, imageData) ==
  LET pushed == Append(SubSeq(h, 1, i + 1), imageData)
  IN IF Len(pushed) > HistoryLimit
     THEN [history |-> Tail(pushed), historyIndex |-> Len(pushed) - 2, shifted |-> TRUE]
     ELSE [history |-> pushed, historyIndex |-> Len(pushed) - 1, shifted |-> FALSE]

\* startDrawing (mouse down, touch start): setIsDrawing(true), beginPath, moveTo
StartDrawing ==
  /\ ~isDrawing
  /\ isDrawing' = TRUE
  /\ moved' = FALSE
  /\ UNCHANGED <<store, calls, lastReturn, hostView, broadcastPage, subscriptions, userProfile, now, apView, autoSave,
                 raster, history, historyIndex, onChange, repeats, dropped>>

\* draw (the moves of one stroke): lineTo and stroke put a line on the canvas.
Draw ==
  /\ isDrawing
  /\ ~moved
  /\ raster < MaxLines
  /\ raster' = raster + 1
  /\ moved' = TRUE
  /\ UNCHANGED <<store, calls, lastReturn, hostView, broadcastPage, subscriptions, userProfile, now, apView, autoSave,
                 isDrawing, history, historyIndex, onChange, repeats, dropped>>

\* stopDrawing (mouse up or leave, touch end): setIsDrawing(false),
\* saveToHistory(), onChange(toDataURL())
StopDrawing ==
  /\ isDrawing
  /\ moved \/ repeats < MaxRepeats
  /\ repeats' = IF moved THEN repeats ELSE repeats + 1
  /\ isDrawing' = FALSE
  /\ LET saved == saveToHistory(history, historyIndex, raster)
     IN /\ history' = saved.history
        /\ historyIndex' = saved.historyIndex
        /\ dropped' = (dropped \/ saved.shifted)
  /\ onChange' = [handler |-> "stopDrawing", dataUrl |-> toDataURL(raster)]
  /\ UNCHANGED <<store, calls, lastReturn, hostView, broadcastPage, subscriptions, userProfile, now, apView, autoSave,
                 raster, moved>>

\* Mutant: undo steps back to the snapshot before the previous one.
HandleUndo_TwoBack ==
  /\ ~isDrawing
  /\ IF historyIndex <= 0
     THEN /\ onChange' = [handler |-> "handleUndo", dataUrl |-> <<>>]
          /\ UNCHANGED <<historyIndex, raster>>
     ELSE /\ historyIndex' = historyIndex - 1
          /\ raster' = history[Max(historyIndex - 1, 1)]
          /\ onChange' = [handler |-> "handleUndo", dataUrl |-> toDataURL(raster')]
  /\ UNCHANGED <<store, calls, lastReturn, hostView, broadcastPage, subscriptions, userProfile, now, apView, autoSave,
                 isDrawing, moved, history, repeats, dropped>>

\* handleUndo (the undo button, pressed between strokes): returns at index 0;
\* else index--, putImageData(history[index]), onChange(toDataURL())
HandleUndo ==
  /\ ~isDrawing
  /\ IF historyIndex <= 0
     THEN /\ onChange' = [handler |-> "handleUndo", dataUrl |-> <<>>]
          /\ UNCHANGED <<historyIndex, raster>>
     ELSE /\ historyIndex' = historyIndex - 1
          /\ raster' = history[historyIndex' + 1]
          /\ onChange' = [handler |-> "handleUndo", dataUrl |-> toDataURL(raster')]
  /\ UNCHANGED <<store, calls, lastReturn, hostView, broadcastPage, subscriptions, userProfile, now, apView, autoSave,
                 isDrawing, moved, history, repeats, dropped>>

\* handleClear (the clear button, pressed between strokes): fillRect with the
\* background colour, saveToHistory(), onChange(toDataURL())
HandleClear ==
  /\ ~isDrawing
  /\ repeats < MaxRepeats
  /\ repeats' = repeats + 1
  /\ raster' = Background
  /\ LET saved == saveToHistory(history, historyIndex, Background)
     IN /\ history' = saved.history
        /\ historyIndex' = saved.historyIndex
        /\ dropped' = (dropped \/ saved.shifted)
  /\ onChange' = [handler |-> "handleClear", dataUrl |-> toDataURL(Background)]
  /\ UNCHANGED <<store, calls, lastReturn, hostView, broadcastPage, subscriptions, userProfile, now, apView, autoSave,
                 isDrawing, moved>>

\* ---------------------------------------------------------- specifications
\* Joins, kicks and unbans that overlap.
MembersNext ==
  \/ \E c \in Slots, u \in Users : RequestJoinRoom(c, u)
  \/ \E c \in Slots : JoinIsUserBanned(c)
  \/ \E c \in Slots : JoinExisting(c)
  \/ \E c \in Slots : JoinCount(c)
  \/ \E c \in Slots : JoinRoom(c)
  \/ \E c \in Slots : JoinAddDoc(c)
  \/ \E c \in Slots, p \in hostParticipants : KickAddDoc(c, p)
  \/ \E c \in Slots : KickDeleteDoc(c)
  \/ \E c \in Slots, b \in hostBanned : UnbanGetDocs(c, b)
  \/ \E c \in Slots : UnbanDeleteDoc(c)
  \/ HostParticipantsSnapshot
  \/ HostBannedSnapshot

SpecMembers == Init /\ [][MembersNext]_vars

\* The host's question flow and the participants' saves, overlapping.
RoomNext ==
  \/ \E c \in Slots, u \in Users, q \in questions, d \in Drawings : SubmitGetDocs(c, u, q, d)
  \/ \E c \in Slots : SubmitUpdateDoc(c)
  \/ \E c \in Slots : SubmitAddDoc(c)
  \/ \E c \in Slots : CreateQuestionAddDoc(c)
  \/ \E c \in Slots : CreateQuestionUpdateDoc(c)
  \/ \E c \in Slots : SaveGameResult(c)
  \/ \E c \in Slots : SaveGameResultFails(c)
  \/ \E c \in Slots : OpenAnswers(c)
  \/ \E c \in Slots : ResetRoomToWaiting(c)
  \/ \E c \in Slots : EndRoom(c)
  \/ HostRoomSnapshot
  \/ \E q \in hostLookups : HostGetQuestion(q)
  \/ HostAnswersSnapshot

SpecRoom == InitDefault /\ [][RoomNext]_vars

\* Joining, moderation, asking and answering with the calls made one after the
\* other: a call begins only when no other is in flight.
SeqNext ==
  \/ \E u \in Users : RequestJoinRoom(1, u)
  \/ JoinIsUserBanned(1)
  \/ JoinExisting(1)
  \/ JoinCount(1)
  \/ JoinRoom(1)
  \/ JoinAddDoc(1)
  \/ \E p \in hostParticipants : KickAddDoc(1, p)
  \/ KickDeleteDoc(1)
  \/ \E b \in hostBanned : UnbanGetDocs(1, b)
  \/ UnbanDeleteDoc(1)
  \/ \E u \in Users, q \in questions, d \in Drawings : SubmitGetDocs(1, u, q, d)
  \/ SubmitUpdateDoc(1)
  \/ SubmitAddDoc(1)
  \/ CreateQuestionAddDoc(1)
  \/ CreateQuestionUpdateDoc(1)
  \/ HostParticipantsSnapshot
  \/ HostBannedSnapshot
  \/ HostRoomSnapshot

SpecSeq == InitSeq /\ [][SeqNext]_vars

\* One question asked, answered, judged, closed and revealed, the calls made
\* one after the other.
RevealNext ==
  \/ \E u \in Users, q \in questions, d \in Drawings : SubmitGetDocs(1, u, q, d)
  \/ SubmitUpdateDoc(1)
  \/ SubmitAddDoc(1)
  \/ CreateQuestionAddDoc(1)
  \/ CreateQuestionUpdateDoc(1)
  \/ SaveGameResult(1)
  \/ SaveGameResultFails(1)
  \/ OpenAnswers(1)
  \/ ResetRoomToWaiting(1)
  \/ \E a \in hostAnswers : ToggleAnswerCorrect(1, a)
  \/ \E a \in hostAnswers : ToggleAnswerReveal(1, a)
  \/ RevealAllGetDocs(1)
  \/ RevealAllUpdateDoc(1)
  \/ HostRoomSnapshot
  \/ \E q \in hostLookups : HostGetQuestion(q)
  \/ HostAnswersSnapshot

SpecReveal == InitDefault /\ [][RevealNext]_vars

\* The broadcast page following a room whose answers the host reveals and
\* hides.
BroadcastNext ==
  \/ \E u \in Users, q \in questions, d \in Drawings : SubmitGetDocs(1, u, q, d)
  \/ SubmitUpdateDoc(1)
  \/ SubmitAddDoc(1)
  \/ CreateQuestionAddDoc(1)
  \/ CreateQuestionUpdateDoc(1)
  \/ SaveGameResult(1)
  \/ OpenAnswers(1)
  \/ ResetRoomToWaiting(1)
  \/ \E a \in hostAnswers : ToggleAnswerReveal(1, a)
  \/ HostRoomSnapshot
  \/ \E q \in hostLookups : HostGetQuestion(q)
  \/ HostAnswersSnapshot
  \/ BroadcastRoomSnapshot
  \/ BroadcastAnswersSnapshot
  \/ \E l \in bcLoading : BroadcastImgOnload(l)

SpecBroadcast == InitDefault /\ [][BroadcastNext]_vars

\* One participant who joins, answers, is judged and is kicked, before and
\* after the host closes the question.
InitHistory == InitRoom(DefaultMaxParticipants, MaxSeqDocs) /\ NothingLoaded

HistoryNext ==
  \/ RequestJoinRoom(1, "u1")
  \/ JoinIsUserBanned(1)
  \/ JoinExisting(1)
  \/ JoinCount(1)
  \/ JoinRoom(1)
  \/ JoinAddDoc(1)
  \/ \E p \in hostParticipants : KickAddDoc(1, p)
  \/ KickDeleteDoc(1)
  \/ \E q \in questions, d \in Drawings : SubmitGetDocs(1, "u1", q, d)
  \/ SubmitUpdateDoc(1)
  \/ SubmitAddDoc(1)
  \/ CreateQuestionAddDoc(1)
  \/ CreateQuestionUpdateDoc(1)
  \/ SaveGameResult(1)
  \/ OpenAnswers(1)
  \/ ResetRoomToWaiting(1)
  \/ \E a \in hostAnswers : ToggleAnswerCorrect(1, a)
  \/ \E a \in hostAnswers : ToggleAnswerReveal(1, a)
  \/ RevealAllGetDocs(1)
  \/ RevealAllUpdateDoc(1)
  \/ HostParticipantsSnapshot
  \/ HostRoomSnapshot
  \/ \E q \in hostLookups : HostGetQuestion(q)
  \/ HostAnswersSnapshot

SpecHistory == InitHistory /\ [][HistoryNext]_vars

\* img.onload of the broadcast page, for every image it can be handed.
OnloadNext == ImgOnload

SpecOnload == InitOnload /\ [][OnloadNext]_vars

\* One answer page drawing and auto-saving while the host asks questions and
\* ends the room.
AutoSaveNext ==
  \/ \E c \in Slots : CreateQuestionAddDoc(c)
  \/ \E c \in Slots : CreateQuestionUpdateDoc(c)
  \/ \E c \in Slots : EndRoom(c)
  \/ AnswerRoomSnapshot
  \/ \E q \in apLookups : AnswerGetQuestion(q)
  \/ \E d \in Drawings : HandleCanvasChange(d)
  \/ TimePasses
  \/ \E c \in Slots : SaveAnswer(c)
  \/ \E c \in Slots : SubmitUpdateDoc(c)
  \/ \E c \in Slots : SubmitAddDoc(c)
  \/ \E s \in autoSaving : SetLastSubmitTime(s)
  \/ \E s \in autoSaving : SaveAnswerFails(s)

SpecAutoSave == InitDefault /\ [][AutoSaveNext]_vars

\* Saves and resubmissions by a participant who changes display name, while
\* the host judges, closes and reveals.
ResubmitNext ==
  \/ \E name \in Names : UpdateProfile(Me, name)
  \/ \E q \in questions, d \in Drawings : SubmitGetDocs(1, Me, q, d)
  \/ SubmitUpdateDoc(1)
  \/ SubmitAddDoc(1)
  \/ CreateQuestionAddDoc(1)
  \/ CreateQuestionUpdateDoc(1)
  \/ SaveGameResult(1)
  \/ OpenAnswers(1)
  \/ \E a \in hostAnswers : ToggleAnswerCorrect(1, a)
  \/ \E a \in hostAnswers : ToggleAnswerReveal(1, a)
  \/ HostRoomSnapshot
  \/ \E q \in hostLookups : HostGetQuestion(q)
  \/ HostAnswersSnapshot

SpecResubmit == InitDefault /\ [][ResubmitNext]_vars

\* The host asks, closes, moves on and asks again, one call at a time, while
\* one participant answers.
InitClose == InitRoom(DefaultMaxParticipants, MaxCloseDocs) /\ NothingLoaded

CloseNext ==
  \/ \E q \in questions : SubmitGetDocs(1, Me, q, "d1")
  \/ SubmitUpdateDoc(1)
  \/ SubmitAddDoc(1)
  \/ CreateQuestionAddDoc(1)
  \/ CreateQuestionUpdateDoc(1)
  \/ SaveGameResult(1)
  \/ OpenAnswers(1)
  \/ ResetRoomToWaiting(1)
  \/ HostRoomSnapshot
  \/ \E q \in hostLookups : HostGetQuestion(q)
  \/ HostAnswersSnapshot

SpecClose == InitClose /\ [][CloseNext]_vars

\* The host asks, closes, moves on and asks again while the answer page
\* follows the room and looks each current question up.
LookupsNext ==
  \/ CreateQuestionAddDoc(1)
  \/ CreateQuestionUpdateDoc(1)
  \/ SaveGameResult(1)
  \/ OpenAnswers(1)
  \/ ResetRoomToWaiting(1)
  \/ HostRoomSnapshot
  \/ \E q \in hostLookups : HostGetQuestion(q)
  \/ AnswerRoomSnapshot
  \/ \E q \in apLookups : AnswerGetQuestion(q)

SpecLookups == InitDefault /\ [][LookupsNext]_vars

\* Kicks, some of which fail at their delete, overlapping with joins and
\* rejoins; no ban is lifted.
KickNext ==
  \/ \E c \in Slots, u \in Users : RequestJoinRoom(c, u)
  \/ \E c \in Slots : JoinIsUserBanned(c)
  \/ \E c \in Slots : JoinExisting(c)
  \/ \E c \in Slots : JoinCount(c)
  \/ \E c \in Slots : JoinRoom(c)
  \/ \E c \in Slots : JoinAddDoc(c)
  \/ \E c \in Slots, p \in hostParticipants : KickAddDoc(c, p)
  \/ \E c \in Slots : KickDeleteDoc(c)
  \/ \E c \in Slots : KickDeleteDocFails(c)
  \/ HostParticipantsSnapshot

SpecKick == InitDefault /\ [][KickNext]_vars

\* The three pages opened and left while the host asks, closes and moves on.
\* The host's buttons are there once its page has been handed the room.
HostReady == "host" \in mounted /\ hostRoom # NoRoom

SubscriptionsNext ==
  \/ \E page \in Pages : Mount(page)
  \/ \E page \in Pages : Unmount(page)
  \/ HostReady /\ CreateQuestionAddDoc(1)
  \/ CreateQuestionUpdateDoc(1)
  \/ HostReady /\ SaveGameResult(1)
  \/ OpenAnswers(1)
  \/ HostReady /\ ResetRoomToWaiting(1)
  \/ \E q \in questions, d \in Drawings : SubmitGetDocs(1, Me, q, d)
  \/ SubmitUpdateDoc(1)
  \/ SubmitAddDoc(1)
  \/ HostRoomSnapshot
  \/ \E q \in hostLookups : HostGetQuestion(q)
  \/ HostAnswersSnapshot
  \/ BroadcastRoomSnapshot
  \/ BroadcastAnswersSnapshot
  \/ AnswerRoomSnapshot
  \/ \E q \in apLookups : AnswerGetQuestion(q)

SpecSubscriptions == InitDefault /\ [][SubscriptionsNext]_vars

\* The drawing surface under strokes, clears and undos.
CanvasNext ==
  \/ StartDrawing
  \/ Draw
  \/ StopDrawing
  \/ HandleUndo
  \/ HandleClear

SpecCanvas == InitDefault /\ [][CanvasNext]_vars

\* ------------------------------------------------------------------ claims
\* The step of slot c: the call in it begins, moves on or returns.
Steps(c) == calls'[c] # calls[c]
AtCapacity == Cardinality(participants) >= room.maxParticipants
\* The collections after the step.
BansAfter(u) == {b \in bannedUsers' : b.odId = u}
AnswersAfter(q, u) == {a \in answers' : a.questionId = q /\ a.odId = u}

\* C1: a join whose ban check finds a ban record for the identity throws the
\* banned error at that step and writes no participant record, whatever the
\* participant count and whether or not the identity has a participant record.
C1_BannedJoinThrows ==
  [][\A c \in Slots :
       (At(c, "requestJoinRoom", "isUserBanned") /\ isUserBanned(calls[c].odId) /\ Steps(c))
       => /\ calls'[c] = Idle
          /\ lastReturn' = Return("requestJoinRoom", calls[c].odId, NoDoc, "banned")
          /\ participants' = participants]_vars

\* A banned identity that still has a participant record is turned away from
\* a room at capacity.
C1_Witness ==
  /\ lastReturn.op = "requestJoinRoom" /\ lastReturn.result = "banned"
  /\ isUserBanned(lastReturn.odId)
  /\ ParticipantsOf(lastReturn.odId) # {}
  /\ AtCapacity

\* C2: with the calls made one at a time no participant record is ever added
\* beyond maxParticipants: a join by an identity that passed the ban and
\* membership checks, counting in a room at capacity, throws the room-full
\* error and leaves the participants unchanged.
C2_FullRoomRejects ==
  [][/\ Cardinality(participants') <= room'.maxParticipants
     /\ \A c \in Slots :
          (/\ calls[c].op = "requestJoinRoom" /\ calls[c].pc \in {"count", "room"}
           /\ AtCapacity /\ Steps(c))
          => /\ participants' = participants
             /\ calls'[c].pc # "addDoc"
             /\ calls[c].pc = "room" =>
                  /\ calls'[c] = Idle
                  /\ lastReturn' = Return("requestJoinRoom", calls[c].odId, NoDoc, "full")]_vars

C2_Witness ==
  /\ lastReturn.op = "requestJoinRoom" /\ lastReturn.result = "full"
  /\ Cardinality(participants) = room.maxParticipants
  /\ ~isUserBanned(lastReturn.odId)
  /\ ParticipantsOf(lastReturn.odId) = {}

\* C3: a join that passed the ban check and finds a participant record of its
\* identity returns one such record and writes nothing, at capacity too.
C3_ExistingReturned ==
  [][\A c \in Slots :
       (/\ At(c, "requestJoinRoom", "existing")
        /\ ParticipantsOf(calls[c].odId) # {} /\ Steps(c))
       => /\ calls'[c] = Idle
          /\ lastReturn'.op = "requestJoinRoom" /\ lastReturn'.result = "existing"
          /\ lastReturn'.ref \in Ids(ParticipantsOf(calls[c].odId))
          /\ UNCHANGED <<room, participants, bannedUsers, questions, answers,
                         gameResults, nextId>>]_vars

C3_Witness ==
  /\ lastReturn.op = "requestJoinRoom" /\ lastReturn.result = "existing"
  /\ lastReturn.ref \in Ids(ParticipantsOf(lastReturn.odId))
  /\ AtCapacity

\* C4: with the calls made one after the other, a save for a (question,
\* identity) that already has an answer record takes the update path on that
\* record: the record keeps its id, gets the new canvasData, and the pair still
\* has exactly one record.
C4_SecondSubmitUpdates ==
  [][\A c \in Slots :
       /\ (/\ calls[c] = Idle /\ calls'[c].op = "submitAnswer"
           /\ AnswersOf(calls'[c].qid, calls'[c].odId) # {})
          => /\ calls'[c].pc = "updateDoc"
             /\ calls'[c].ref \in Ids(AnswersOf(calls'[c].qid, calls'[c].odId))
             /\ answers' = answers
       /\ (At(c, "submitAnswer", "updateDoc") /\ Steps(c))
          => /\ Ids(answers') = Ids(answers)
             /\ \E a \in answers :
                  /\ a.id = calls[c].ref
                  /\ AnswersAfter(calls[c].qid, calls[c].odId) =
                       {[a EXCEPT !.canvasData = calls[c].data]}
             /\ lastReturn' = Return("submitAnswer", calls[c].odId, calls[c].ref, "updated")]_vars

\* A second save has replaced the drawing of the first.
C4_Witness ==
  /\ lastReturn.op = "submitAnswer" /\ lastReturn.result = "updated"
  /\ \E a \in answers :
       /\ a.id = lastReturn.ref /\ a.odId = lastReturn.odId /\ a.canvasData = "d2"
       /\ AnswersOf(a.questionId, a.odId) = {a}

\* C5: there is at most one answer record per (question, identity).
C5_OneAnswerPerPair ==
  \A q \in questions, u \in Users : Cardinality(AnswersOf(q, u)) <= 1

\* C6: every change of the room's status is waiting -> questioning,
\* questioning -> open, open -> waiting, or a change to ended.
AllowedTransitions ==
  {<<"waiting", "questioning">>, <<"questioning", "open">>, <<"open", "waiting">>}
    \cup {<<st, "ended">> : st \in {"waiting", "questioning", "open"}}

C6_StatusTransitions ==
  [][room'.status # room.status => <<room.status, room'.status>> \in AllowedTransitions]_vars

\* C7: once the room's status is ended it stays ended.
C7_EndedIsTerminal ==
  [][room.status = "ended" => room'.status = "ended"]_vars

\* C8: a kick writes the ban record, and when it completes the participant
\* record it named is gone for good; the identity stays banned until a step of
\* an unbanUser call for it, and while it is banned its joins are turned away.
C8_KickRemovesAndBans ==
  [][/\ \A c \in Slots :
          /\ (calls[c] = Idle /\ calls'[c].op = "kickParticipant")
             => BansAfter(calls'[c].odId) # {}
          /\ (At(c, "kickParticipant", "deleteDoc") /\ Steps(c))
             => calls'[c] = Idle /\ calls[c].ref \notin Ids(participants')
          /\ (/\ At(c, "requestJoinRoom", "isUserBanned")
              /\ isUserBanned(calls[c].odId) /\ Steps(c))
             => calls'[c] = Idle /\ lastReturn'.result = "banned"
     /\ \A id \in 1..(nextId - 1) :
          id \notin Ids(participants) => id \notin Ids(participants')
     /\ \A u \in Users :
          (isUserBanned(u) /\ BansAfter(u) = {})
          => \E c \in Slots :
               calls[c].op = "unbanUser" /\ calls[c].odId = u /\ Steps(c)]_vars

\* The kick has completed (no call is in flight), the identity has no
\* participant record, is banned, and its join was turned away.
C8_Witness ==
  /\ \A c \in Slots : calls[c] = Idle
  /\ lastReturn.op = "requestJoinRoom" /\ lastReturn.result = "banned"
  /\ isUserBanned(lastReturn.odId)
  /\ ParticipantsOf(lastReturn.odId) = {}

\* C9: a step of unbanUser leaves the participants, the answers, the questions,
\* the game results and the room document as they are, and a participant
\* record only ever appears by the addDoc of a requestJoinRoom that passed the
\* capacity check.
C9_UnbanFrame ==
  [][/\ \A c \in Slots :
          ((calls[c].op = "unbanUser" \/ calls'[c].op = "unbanUser") /\ Steps(c))
          => UNCHANGED <<room, participants, answers, questions, gameResults>>
     /\ ~(participants' \subseteq participants)
          => \E c \in Slots :
               /\ At(c, "requestJoinRoom", "addDoc") /\ Steps(c)
               /\ calls[c].n < room.maxParticipants]_vars

\* After a kick and an unban the identity is neither banned nor a participant,
\* and its answer is still there.
C9_Witness ==
  /\ lastReturn.op = "unbanUser"
  /\ ~isUserBanned(lastReturn.odId)
  /\ ParticipantsOf(lastReturn.odId) = {}
  /\ \E a \in answers : a.odId = lastReturn.odId
  /\ \E p \in hostParticipants : p.odId = lastReturn.odId

\* C10: with no call overlapping it, unbanUser leaves no ban record of its
\* identity when it returns, however many there were, and never touches the
\* ban records of another identity.
C10_UnbanDeletesAll ==
  [][\A c \in Slots :
       ((calls[c].op = "unbanUser" \/ calls'[c].op = "unbanUser") /\ Steps(c))
       => LET u == IF calls[c].op = "unbanUser" THEN calls[c].odId ELSE calls'[c].odId
          IN /\ \A v \in Users \ {u} : BansAfter(v) = BansOf(v)
             /\ calls'[c] = Idle => BansAfter(u) = {}]_vars

\* The unban has returned, no ban record is left, and the host's list (not yet
\* refreshed) still shows the two ban records the identity had.
C10_Witness ==
  /\ lastReturn.op = "unbanUser"
  /\ ~isUserBanned(lastReturn.odId)
  /\ Cardinality({b \in hostBanned : b.odId = lastReturn.odId}) = 2

\* C11: a step of a submitAnswer call by an identity that is banned (its kick
\* has completed and it has not been unbanned) writes no answer record.
C11_BannedCannotSubmit ==
  [][\A c \in Slots :
       (calls[c].op = "submitAnswer" /\ Steps(c) /\ isUserBanned(calls[c].odId))
       => answers' = answers]_vars

\* C12: when the close action sets the status to open, a game result for the
\* room's current question exists.
C12_ResultBeforeOpen ==
  [][\A c \in Slots :
       (At(c, "handleOpen", "openAnswers") /\ Steps(c))
       => \E g \in gameResults : g.questionId = room'.currentQuestionId]_vars

\* C13: a close whose upload fails writes no game result, leaves the room
\* document as it is and does not go on to openAnswers.
C13_FailedUploadAborts ==
  [][(/\ lastReturn' # lastReturn
      /\ lastReturn'.op = "handleOpen" /\ lastReturn'.result = "failed")
     => /\ gameResults' = gameResults
        /\ room' = room
        /\ \A c \in Slots : calls'[c].op # "handleOpen"]_vars

\* The close failed with answers to upload: the room is still questioning and
\* has no game result.
C13_Witness ==
  /\ lastReturn.op = "handleOpen" /\ lastReturn.result = "failed"
  /\ room.status = "questioning"
  /\ hostAnswers # {}
  /\ gameResults = {}

\* C14: the write of createQuestion sets currentQuestionId to the new question
\* and status to questioning in one step; the pointer never changes to a
\* question without the status being questioning in the same document state;
\* the question it points to exists; and an observer is handed whole document
\* states only.
C14_CurrentWithQuestioning ==
  [][/\ \A c \in Slots :
          (At(c, "createQuestion", "updateDoc") /\ Steps(c))
          => /\ calls[c].ref \in questions
             /\ room'.currentQuestionId = calls[c].ref
             /\ room'.status = "questioning"
     /\ (room'.currentQuestionId # room.currentQuestionId /\ room'.currentQuestionId # NoDoc)
          => /\ room'.status = "questioning"
             /\ room'.currentQuestionId \in questions
     /\ hostRoom' # hostRoom => hostRoom' = room]_vars

\* The host page has been handed the room pointing to the new question.
C14_Witness ==
  /\ lastReturn.op = "createQuestion"
  /\ room.currentQuestionId = lastReturn.ref
  /\ room.status = "questioning"
  /\ hostRoom = room

\* C15 (as amended): in the processed drawing a pixel with r, g and b all
\* below 128 is white with the alpha it had, and every other pixel has alpha 0
\* and the colour it had.
C15_InkWhiteKeepsAlpha ==
  canvas.calls # <<>> =>
    \A i \in 1..Len(img.data) :
      LET p == img.data[i]
          o == canvas.calls[2].image.data[i]
      IN IF p.r < 128 /\ p.g < 128 /\ p.b < 128
         THEN o = [r |-> 255, g |-> 255, b |-> 255, a |-> p.a]
         ELSE o = [r |-> p.r, g |-> p.g, b |-> p.b, a |-> 0]

\* C15 (as stated): a pixel with r, g and b all below 128 comes out opaque
\* white whatever its alpha, and every other pixel has alpha 0.
C15_InkOpaqueWhite ==
  canvas.calls # <<>> =>
    \A i \in 1..Len(img.data) :
      LET p == img.data[i]
          o == canvas.calls[2].image.data[i]
      IN IF p.r < 128 /\ p.g < 128 /\ p.b < 128
         THEN o = [r |-> 255, g |-> 255, b |-> 255, a |-> 255]
         ELSE o.a = 0

\* A transparent pixel (0, 0, 0, 0) and a pixel with one channel at 128 have
\* been processed.
C15_Witness ==
  /\ canvas.calls # <<>>
  /\ img.data[1] = [r |-> 0, g |-> 0, b |-> 0, a |-> 0]
  /\ canvas.calls[2].image.data[1] = [r |-> 255, g |-> 255, b |-> 255, a |-> 0]
  /\ Len(img.data) = 2
  /\ img.data[2] = [r |-> 127, g |-> 128, b |-> 127, a |-> 255]
  /\ canvas.calls[2].image.data[2].a = 0

\* C16: the canvas is 320 by 240 whatever the image; once drawn, the
\* background rectangle of the correctness colour covers it and the whole
\* processed drawing, of the image's size, is drawn into that same rectangle.
C16_OutputFillsCanvas ==
  /\ canvas.width = 320 /\ canvas.height = 240
  /\ canvas.calls # <<>> =>
       /\ Len(canvas.calls) = 2
       /\ canvas.calls[1] =
            [op |-> "fillRect", fillStyle |-> IF isCorrect THEN "#dc2626" ELSE "#2563eb",
             x |-> 0, y |-> 0, width |-> 320, height |-> 240]
       /\ canvas.calls[2].op = "drawImage"
       /\ canvas.calls[2].image.width = img.width
       /\ canvas.calls[2].image.height = img.height
       /\ Len(canvas.calls[2].image.data) = img.width * img.height
       /\ <<canvas.calls[2].x, canvas.calls[2].y>> = <<0, 0>>
       /\ <<canvas.calls[2].width, canvas.calls[2].height>> = <<320, 240>>

\* A correct answer's drawing of 2 by 1 pixels has been drawn.
C16_Witness ==
  /\ canvas.calls # <<>>
  /\ isCorrect
  /\ img.width = 2 /\ img.height = 1

\* C17: on the broadcast page a canvas exists, and an image is loaded for it,
\* only for an answer that the page's state has as revealed in an open room;
\* what is drawn on a canvas is that answer's drawing.
C17_DrawnOnlyWhenRevealed ==
  /\ \A x \in bcCanvases :
       /\ bcRoom.status = "open"
       /\ \E a \in bcAnswers : a.id = x.id /\ a.isRevealed
       /\ x.drawn # "blank" => x.drawn \in Drawings
  /\ \A l \in bcLoading :
       /\ bcRoom.status = "open"
       /\ \E a \in bcAnswers : a.id = l.id /\ a.isRevealed

\* A revealed answer's drawing is on its canvas.
C17_Witness ==
  \E x \in bcCanvases :
    /\ x.drawn # "blank"
    /\ \E a \in answers : a.id = x.id /\ a.canvasData = x.drawn /\ a.isRevealed

\* C18 (as amended): whenever the answers are listed and no call is running,
\* the host can toggle an answer's correctness flag; the reveal flag it can
\* toggle exactly when the host page's room status is not questioning. A step
\* that changes one flag of an answer leaves its other flag and its canvasData
\* unchanged.
C18_FlagsIndependent ==
  [][/\ \A a \in hostAnswers :
          (hostRoom.currentQuestionId # NoDoc /\ calls[1] = Idle)
          => /\ ENABLED ToggleAnswerCorrect(1, a)
             /\ (hostRoom.status # "questioning") <=> ENABLED ToggleAnswerReveal(1, a)
     /\ \A x \in answers : \A y \in answers' :
          x.id = y.id =>
            /\ y.isCorrect # x.isCorrect
                 => y.isRevealed = x.isRevealed /\ y.canvasData = x.canvasData
            /\ y.isRevealed # x.isRevealed
                 => y.isCorrect = x.isCorrect /\ y.canvasData = x.canvasData]_vars

\* C18 (as stated): whenever the answers are listed in a room the host page
\* has as questioning or open, the host can toggle the reveal flag.
C18_RevealInEveryStatus ==
  \A a \in hostAnswers :
    (/\ hostRoom.currentQuestionId # NoDoc
     /\ hostRoom.status \in {"questioning", "open"}
     /\ calls[1] = Idle)
    => ENABLED ToggleAnswerReveal(1, a)

\* An answer marked correct during questioning has been revealed in the open
\* room.
C18_Witness ==
  /\ lastReturn.op = "toggleAnswerReveal"
  /\ room.status = "open"
  /\ \E a \in answers : a.id = lastReturn.ref /\ a.isRevealed /\ a.isCorrect

\* C19: a game result, once written, stays in gameResults unchanged.
C19_GameResultImmutable ==
  [][\A g \in gameResults : g \in gameResults']_vars

\* After the close the host changed the answer's correctness and moved on to
\* the next question: the saved result still has the value of the closing.
C19_Witness ==
  /\ room.status = "waiting"
  /\ \E g \in gameResults : \E sa \in g.answers : \E a \in answers :
       /\ a.questionId = g.questionId /\ a.odId = sa.odId
       /\ a.isCorrect # sa.isCorrect

\* C20: a join that counted fewer participants than maxParticipants goes on to
\* its write, and the write adds its participant record whatever the number
\* of participants has become since.
C20_AdmitsOnStaleCount ==
  [][\A c \in Slots :
       /\ (/\ At(c, "requestJoinRoom", "room") /\ Steps(c)
           /\ calls[c].n < room.maxParticipants)
          => calls'[c].pc = "addDoc" /\ participants' = participants
       /\ (At(c, "requestJoinRoom", "addDoc") /\ Steps(c))
          => /\ participants' = participants \cup {[id |-> nextId, odId |-> calls[c].odId]}
             /\ lastReturn' = Return("requestJoinRoom", calls[c].odId, nextId, "created")]_vars

\* Two distinct identities, neither banned, were both admitted to a room that
\* had one free slot: it holds more participants than maxParticipants.
C20_Witness ==
  /\ Cardinality(participants) = room.maxParticipants + 1
  /\ \A u \in Users : Cardinality(ParticipantsOf(u)) = 1 /\ ~isUserBanned(u)
  /\ lastReturn.op = "requestJoinRoom" /\ lastReturn.result = "created"

\* C21: an auto-save call to submitAnswer begins only while the answer page's
\* room is questioning with a current question and the page holds a drawing,
\* for that question, and at least 2 seconds after the auto-save call before
\* it began.
C21_AutoSaveThrottled ==
  [][autoSaving' # autoSaving /\ autoSaving \subseteq autoSaving'
     => /\ apRoom.status = "questioning"
        /\ apRoom.currentQuestionId # NoDoc
        /\ canvasData # ""
        /\ \E c \in Slots :
             /\ calls[c] = Idle /\ calls'[c].op = "submitAnswer"
             /\ calls'[c].qid = apRoom.currentQuestionId
             /\ calls'[c].data = canvasData
        /\ autoSaveStarted # Never => now - autoSaveStarted >= 2000]_vars

\* A second auto-save call began while the first was still waiting for
\* submitAnswer.
C21_Witness ==
  /\ Cardinality(autoSaving) = 2
  /\ \E s \in autoSaving : s.now = autoSaveStarted
  /\ \E s \in autoSaving : s.now < autoSaveStarted

\* The steps of the drawing surface: a stroke completes, the canvas is
\* cleared, the undo button is pressed.
Stopped == isDrawing /\ ~isDrawing'
Cleared == ~isDrawing /\ repeats' = repeats + 1
Undone ==
  /\ ~isDrawing /\ ~isDrawing' /\ repeats' = repeats
  /\ onChange'.handler = "handleUndo"
  /\ historyIndex = 0 \/ historyIndex' # historyIndex

\* C22: the undo history holds between 1 and 50 snapshots and its index is
\* within it; a completed stroke or a clear leaves the snapshots up to the
\* current index, followed by one snapshot of the canvas, without the oldest
\* when that makes 51, and the index on the new snapshot; no other step
\* changes the snapshots.
C22_HistoryBounded ==
  [][/\ 1 <= Len(history') /\ Len(history') <= 50
     /\ 0 <= historyIndex' /\ historyIndex' < Len(history')
     /\ IF Stopped \/ Cleared
        THEN LET kept == SubSeq(history, 1, historyIndex + 1)
             IN /\ history' = IF Len(kept) = 50 THEN Tail(kept) \o <<raster'>>
                                ELSE kept \o <<raster'>>
                /\ historyIndex' = Len(history') - 1
        ELSE history' = history]_vars

\* After the oldest snapshot was dropped, two undos and a stroke: the history
\* is one short of full and the index is on the stroke's snapshot.
C22_Witness ==
  /\ dropped
  /\ Len(history) = 49 /\ historyIndex = 48
  /\ onChange.handler = "stopDrawing"

C24_ListenersDisposed ==
  /\ \A l \in listeners : l.page \in mounted
  /\ \A page \in mounted :
       {l \in listeners : l.page = page} =
         RoomEffect(page) \cup
         (IF page \in {"host", "broadcast"} /\ RoomOf(page).currentQuestionId # NoDoc
          THEN {Listener(page, "answers", RoomOf(page).currentQuestionId)}
          ELSE {})

\* The host page was left while it listened to the answers of the second
\* question it rendered; the broadcast page still listens to them.
C24_Witness ==
  /\ "host" \notin mounted
  /\ hostRoom.currentQuestionId = 2
  /\ Cardinality(questions) = 2
  /\ Listening("broadcast", "answers", 2)

\* C25: the first step of a kick writes the ban record and leaves the
\* participants as they are; while the kick is in flight and after each of its
\* steps, the delete failing included, its identity is banned; so while no ban
\* is lifted there is never an identity that was a participant, is none any
\* more and is not banned.
C25_BanBeforeDelete ==
  [][/\ \A c \in Slots :
          /\ (calls[c] = Idle /\ calls'[c].op = "kickParticipant")
               => BansAfter(calls'[c].odId) # {} /\ participants' = participants
          /\ (calls[c].op = "kickParticipant" /\ Steps(c))
               => /\ isUserBanned(calls[c].odId)
                  /\ BansAfter(calls[c].odId) # {}
                  /\ lastReturn'.result = "failed" => participants' = participants
     /\ \A u \in Users :
          (ParticipantsOf(u) # {} /\ {p \in participants' : p.odId = u} = {})
          => BansAfter(u) # {}]_vars

\* The delete of a kick failed: the identity is banned and still has its
\* participant record.
C25_Witness ==
  /\ lastReturn.op = "kickParticipant" /\ lastReturn.result = "failed"
  /\ isUserBanned(lastReturn.odId)
  /\ lastReturn.ref \in Ids(ParticipantsOf(lastReturn.odId))

\* C26: the addDoc of submitAnswer adds one record with the call's question,
\* identity, display name and drawing, isCorrect false and isRevealed false,
\* and leaves the other records alone; its updateDoc changes nothing but the
\* canvasData of the record it names.
C26_ResubmitKeepsFlags ==
  [][\A c \in Slots :
       /\ (At(c, "submitAnswer", "addDoc") /\ Steps(c))
            => answers' = answers \cup
                 {[id |-> nextId, questionId |-> calls[c].qid, odId |-> calls[c].odId,
                   displayName |-> calls[c].displayName, canvasData |-> calls[c].data,
                   isCorrect |-> FALSE, isRevealed |-> FALSE]}
       /\ (At(c, "submitAnswer", "updateDoc") /\ Steps(c))
            => /\ Cardinality(answers') = Cardinality(answers)
               /\ \A x \in answers : \E y \in answers' :
                    /\ y.id = x.id
                    /\ y.isCorrect = x.isCorrect /\ y.isRevealed = x.isRevealed
                    /\ y.displayName = x.displayName
                    /\ y.questionId = x.questionId /\ y.odId = x.odId
                    /\ y.canvasData =
                         IF x.id = calls[c].ref THEN calls[c].data ELSE x.canvasData]_vars

\* An answer the host marked correct and revealed was saved again with
\* another drawing after its author changed display name: it is still correct,
\* revealed and under the old name.
C26_Witness ==
  /\ lastReturn.op = "submitAnswer" /\ lastReturn.result = "updated"
  /\ \E a \in answers :
       /\ a.id = lastReturn.ref
       /\ a.isCorrect /\ a.isRevealed
       /\ a.canvasData = "d2"
       /\ a.displayName = "name1" /\ userProfile[a.odId] = "name2"

\* C27: the game result a close writes holds one entry for each answer of the
\* host page's list, and all of them are answers to the question the result
\* is recorded for.
C27_ResultOfClosedQuestion ==
  [][\A c \in Slots :
       (calls[c] = Idle /\ calls'[c].op = "handleOpen")
       => /\ \A a \in hostAnswers : a.questionId = hostCurrentQuestion
          /\ gameResults' = gameResults \cup
               {[id |-> nextId, questionId |-> hostCurrentQuestion,
                 answers |-> {[odId |-> a.odId, imageURL |-> a.canvasData,
                               isCorrect |-> a.isCorrect] : a \in hostAnswers}]}]_vars

\* C28: in every room state, status questioning or open comes with a
\* currentQuestionId that names an existing question, and status waiting with
\* no currentQuestionId; the writes of openAnswers and endRoom leave
\* currentQuestionId as it was.
C28_PointerFollowsStatus ==
  /\ [](/\ room.status \in {"questioning", "open"} => room.currentQuestionId \in questions
        /\ room.status = "waiting" => room.currentQuestionId = NoDoc)
  /\ [][\A c \in Slots :
          \/ At(c, "handleOpen", "openAnswers") /\ Steps(c)
          \/ lastReturn' # lastReturn /\ lastReturn'.op = "endRoom"
          => /\ room'.currentQuestionId = room.currentQuestionId
             /\ room'.maxParticipants = room.maxParticipants]_vars

\* C29: the room never holds two participant records of one identity, also
\* when two requestJoinRoom calls for that identity overlap.
C29_OneParticipantPerIdentity ==
  \A u \in Users : Cardinality(ParticipantsOf(u)) <= 1

\* C30: when the answer page has been handed the room's latest state and none
\* of its question lookups is pending, the question it displays is the one the
\* room's currentQuestionId names, or none when that is null.
C30_LatestQuestionDisplayed ==
  (apRoom = room /\ apLookups = {}) => apQuestion = room.currentQuestionId
====
